---- MODULE Spec2Model ----
(***************************************************************************)
(* Model of the MCP "Streamable HTTP" JSON-RPC 2.0 server of               *)
(* src/python/streamablemcp/mcp_jsonrpc_server.py.                         *)
(*                                                                         *)
(* One HTTP exchange is served at a time: a POST is gated by its headers,  *)
(* its body is parsed and classified, and it is answered with 202, with a  *)
(* unary JSON document, or with an SSE frame sequence produced one frame   *)
(* per step by the generator handle_streaming_request.                     *)
(*                                                                         *)
(* Python values are modelled as records.  A JSON scalar is a record       *)
(* [k, n, d, s].  A dict the client sends has one field per key the code   *)
(* reads, Absent when the key is missing; a dict the server builds is a    *)
(* record whose DOMAIN is the set of its keys, so that "key in dict" is    *)
(* "key \in DOMAIN dict".  Non-ASCII literals of the source are written    *)
(* with ASCII stand-ins.                                                   *)
(***************************************************************************)
EXTENDS Integers, Sequences, FiniteSets, TLC

VARIABLES req, resp, frames, gen, pc, calls, conc, tools,
          clients, uuids, streams, posted

vars == <<req, resp, frames, gen, pc, calls, conc, tools,
          clients, uuids, streams, posted>>

\* The state of the single exchange of Spec, of the concurrent exchanges
\* and the module-level registry of ConcSpec, and of the SSE demo server
\* of SseSpec.
one == <<req, resp, frames, gen, pc, calls>>
demo == <<clients, uuids, streams, posted>>
many == <<conc, tools, demo>>

(***************************************************************************)
(* Bounds of the input space.                                              *)
(***************************************************************************)
MaxNum == 2      \* operands a, b of calculate range over -1..MaxNum
MaxCount == 2    \* params.count of stream_data ranges over -1..MaxCount
MaxBatch == 2    \* a POSTed array has at most MaxBatch elements

(***************************************************************************)
(* JSON / Python scalars.                                                  *)
(***************************************************************************)
JV(k, n, d, s) == [k |-> k, n |-> n, d |-> d, s |-> s]
Absent == JV("absent", 0, 1, "")     \* the key is not in the dict
PyNone == JV("null", 0, 1, "")       \* JSON null / Python None
JInt(n) == JV("int", n, 1, "")
JStr(s) == JV("str", 0, 1, s)
JBool(b) == JV("bool", IF b THEN 1 ELSE 0, 1, "")
JFloat(n, d) == JV("float", n, d, "")
JList(s) == JV("list", 0, 1, s)       \* a non-empty JSON array, s names it

\* dict.get(key): None when the key is missing.
Get(v) == IF v = Absent THEN PyNone ELSE v

\* dict.get(key, default)
GetDefault(v, default) == IF v = Absent THEN default ELSE v

IsNumber(v) == v.k \in {"int", "bool", "float"}

\* Python truth value of a scalar ("if x:" / "not x").
Truthy(v) ==
    CASE v.k \in {"absent", "null"} -> FALSE
      [] v.k \in {"int", "bool", "float"} -> v.n # 0
      [] v.k = "str" -> v.s # ""
      [] OTHER -> TRUE

\* Python "v == 0": numbers (bool included) compare by value.
PyEqZero(v) == IsNumber(v) /\ v.n = 0

\* Python "v == True": True, 1 and 1.0 are equal to True.
PyEqTrue(v) == IsNumber(v) /\ v.n = v.d

Abs(n) == IF n < 0 THEN -n ELSE n

RECURSIVE GCD(_, _)
GCD(m, n) == IF n = 0 THEN m ELSE GCD(n, m % n)

\* Python true division of two numbers, b # 0: a float, kept as a reduced
\* fraction with a positive denominator.
TrueDiv(a, b) ==
    LET num == a.n * b.d
        den == a.d * b.n
        g == GCD(Abs(num), Abs(den))
        sgn == IF den < 0 THEN -1 ELSE 1
    IN JFloat((sgn * num) \div g, (sgn * den) \div g)

RECURSIVE Repeat(_, _)
Repeat(s, n) == IF n <= 0 THEN "" ELSE s \o Repeat(s, n - 1)

Raise(exc, msg) == [exc |-> exc, msg |-> msg]
Return(val) == [exc |-> "none", val |-> val]

\* Python a + b, a - b, a * b, a / b on JSON operands.  The interpreter
\* raises TypeError for operand types the operator does not support.
PyBinOp(op, a, b) ==
    LET te == Raise("TypeError", "unsupported operand type(s)")
        ints == a.k \in {"int", "bool"} /\ b.k \in {"int", "bool"}
    IN CASE op = "+" ->
              IF ints THEN Return(JInt(a.n + b.n))
              ELSE IF a.k = "str" /\ b.k = "str" THEN Return(JStr(a.s \o b.s))
              ELSE te
         [] op = "-" ->
              IF ints THEN Return(JInt(a.n - b.n)) ELSE te
         [] op = "*" ->
              IF ints THEN Return(JInt(a.n * b.n))
              ELSE IF a.k = "str" /\ b.k \in {"int", "bool"} THEN Return(JStr(Repeat(a.s, b.n)))
              ELSE IF b.k = "str" /\ a.k \in {"int", "bool"} THEN Return(JStr(Repeat(b.s, a.n)))
              ELSE te
         [] op = "/" ->
              IF ints
              THEN IF b.n = 0 THEN Raise("ZeroDivisionError", "division by zero")
                   ELSE Return(TrueDiv(a, b))
              ELSE te

\* str(v) inside an f-string.
PyStr(v) ==
    CASE v.k = "int" -> ToString(v.n)
      [] v.k = "str" -> v.s
      [] v.k = "bool" -> IF v.n = 1 THEN "True" ELSE "False"
      [] v.k = "null" -> "None"
      [] OTHER -> "[...]"

(***************************************************************************)
(* Program constants.                                                      *)
(***************************************************************************)
MCP_PROTOCOL_VERSION == "2025-06-18"

TOOLS == {"get_weather", "calculate", "stream_data"}

PARSE_ERROR == -32700
INVALID_REQUEST == -32600
METHOD_NOT_FOUND == -32601
INVALID_PARAMS == -32602
INTERNAL_ERROR == -32603

ERROR_CODES == {PARSE_ERROR, INVALID_REQUEST, METHOD_NOT_FOUND, INVALID_PARAMS, INTERNAL_ERROR}

\* datetime.now().isoformat(): the wall clock is not modelled.
Now == JStr("<now>")

ErrorObj(code, message) == [code |-> code, message |-> message]

(***************************************************************************)
(* Response builder.                                                       *)
(***************************************************************************)
\* "if error:" on None or a dict.
TruthyDict(e) == e # PyNone /\ DOMAIN e # {}

create_response(result, error, request_id) ==
    LET r0 == [jsonrpc |-> "2.0"]
        r1 == IF TruthyDict(error) THEN r0 @@ [error |-> error] ELSE r0
        r2 == IF result # PyNone THEN r1 @@ [result |-> result] ELSE r1
    IN IF request_id # PyNone THEN r2 @@ [id |-> request_id] ELSE r2

\* A Python list the server builds.
JArray(items) == [items |-> items]

\* json.dumps(x) as the bytes of a body; json.loads(bytes) fails on the
\* empty body.
JsonDumps(x) == [k |-> "json", doc |-> x]
EmptyBody == [k |-> "empty"]
JsonLoads(b) ==
    IF b.k = "empty" THEN Raise("JSONDecodeError", "Expecting value")
    ELSE Return(b.doc)

\* A response header the handler sets: its name and the tokens of its value.
Header(name, toks) == [name |-> name, toks |-> toks]

\* starlette Response(content=..., media_type=..., status_code=...): no
\* headers= argument is passed by any unary return.
Response(content, media_type, status_code) ==
    [status_code |-> status_code, media_type |-> media_type, body |-> content,
     headers |-> {}]

JsonResponse(obj, status_code) ==
    Response(JsonDumps(obj), "application/json", status_code)

Accepted == Response(EmptyBody, "none", 202)

(***************************************************************************)
(* Envelopes sent by the client.                                           *)
(***************************************************************************)
Params(k, stream, operation, a, b, count, location) ==
    [k |-> k, stream |-> stream, operation |-> operation, a |-> a, b |-> b,
     count |-> count, location |-> location]

EmptyParams == Params("obj", Absent, Absent, Absent, Absent, Absent, Absent)
NullParams == Params("null", Absent, Absent, Absent, Absent, Absent, Absent)
ListParams == Params("list", Absent, Absent, Absent, Absent, Absent, Absent)
NoParams == Params("absent", Absent, Absent, Absent, Absent, Absent, Absent)

\* request_data.get("params", {})
ParamsOf(rd) == IF rd.params.k = "absent" THEN EmptyParams ELSE rd.params

IsDict(x) == x.k = "object"

(***************************************************************************)
(* Tools.                                                                  *)
(***************************************************************************)
NoGet(params) ==
    Raise("AttributeError",
          IF params.k = "null" THEN "'NoneType' object has no attribute 'get'"
          ELSE "'list' object has no attribute 'get'")

\* The if/elif chain of the calculate branch: the value of "result", or the
\* exception raised on the way.
CalculateResult(operation, a, b) ==
    CASE operation = JStr("add") -> PyBinOp("+", a, b)
      [] operation = JStr("subtract") -> PyBinOp("-", a, b)
      [] operation = JStr("multiply") -> PyBinOp("*", a, b)
      [] operation = JStr("divide") ->
           IF PyEqZero(b) THEN Raise("ValueError", "Division by zero")
           ELSE PyBinOp("/", a, b)
      [] OTHER -> Raise("ValueError", "Unknown operation: " \o PyStr(operation))

CalculateReturn(operation, a, b, r) ==
    IF r.exc # "none" THEN r
    ELSE Return([operation |-> operation, a |-> a, b |-> b,
                 result |-> r.val, timestamp |-> Now])

Calculate(params) ==
    CalculateReturn(Get(params.operation), Get(params.a), Get(params.b),
                    CalculateResult(Get(params.operation), Get(params.a), Get(params.b)))

execute_tool(tool_name, params) ==
    IF tool_name \notin TOOLS
    THEN Raise("ValueError", "Unknown tool: " \o tool_name)
    ELSE IF params.k # "obj" THEN NoGet(params)
    ELSE CASE tool_name = "get_weather" ->
                Return([location |-> GetDefault(params.location, JStr("Seoul")),
                        temperature |-> JStr("22C"),
                        condition |-> JStr("clear"),
                        humidity |-> JStr("65%"),
                        timestamp |-> Now])
           [] tool_name = "calculate" -> Calculate(params)
           [] tool_name = "stream_data" ->
                LET count == GetDefault(params.count, JInt(5))
                IN Return([message |-> JStr(PyStr(count) \o " items generated"),
                           count |-> count,
                           timestamp |-> Now])

(***************************************************************************)
(* Unary dispatch.                                                         *)
(***************************************************************************)
\* "method in TOOLS": hashing a list raises TypeError.
Hashable(v) == v.k # "list"

\* Mutant: only ValueError is caught around execute_tool.
ToolOutcome_OnlyValueError(r, request_id) ==
    CASE r.exc = "none" ->
           Return(JsonResponse(create_response(r.val, PyNone, request_id), 200))
      [] r.exc = "ValueError" ->
           Return(JsonResponse(
               create_response(PyNone, ErrorObj(INVALID_PARAMS, r.msg), request_id), 400))
      [] OTHER -> r

\* The try/except around execute_tool in process_single.
ToolOutcome(r, request_id) ==
    CASE r.exc = "none" ->
           Return(JsonResponse(create_response(r.val, PyNone, request_id), 200))
      [] r.exc = "ValueError" ->
           Return(JsonResponse(
               create_response(PyNone, ErrorObj(INVALID_PARAMS, r.msg), request_id), 400))
      [] OTHER ->
           Return(JsonResponse(
               create_response(PyNone, ErrorObj(INTERNAL_ERROR, r.msg), request_id), 500))

process_single(request_data) ==
    IF ~IsDict(request_data)
    THEN Return(JsonResponse(
             create_response(PyNone, ErrorObj(INVALID_REQUEST, "Invalid Request"), PyNone),
             400))
    ELSE IF Get(request_data.jsonrpc) # JStr("2.0")
    THEN Return(JsonResponse(
             create_response(PyNone, ErrorObj(INVALID_REQUEST, "jsonrpc must be '2.0'"),
                             Get(request_data.id)),
             400))
    ELSE LET method == Get(request_data.method)
             params == ParamsOf(request_data)
             request_id == Get(request_data.id)
         IN IF ~Truthy(method)
            THEN Return(JsonResponse(
                     create_response(PyNone, ErrorObj(INVALID_REQUEST, "method is required"),
                                     request_id),
                     400))
            ELSE IF request_id = PyNone
            THEN Return(Accepted)
            ELSE IF ~Hashable(method)
            THEN Raise("TypeError", "unhashable type: 'list'")
            ELSE IF method.k = "str" /\ method.s \in TOOLS
            THEN ToolOutcome(execute_tool(method.s, params), request_id)
            ELSE Return(JsonResponse(
                     create_response(PyNone,
                         ErrorObj(METHOD_NOT_FOUND, "Method '" \o PyStr(method) \o "' not found"),
                         request_id),
                     404))

(***************************************************************************)
(* Batch dispatch.                                                         *)
(***************************************************************************)
\* The loop of process_batch from element i on, results collected so far.
RECURSIVE BatchLoop(_, _, _)

\* json.loads(result.body.decode()) and results.append(result_data)
BatchAppend(requests, i, results, result_data) ==
    IF result_data.exc # "none" THEN result_data
    ELSE BatchLoop(requests, i + 1, Append(results, result_data.val))

\* One iteration: result = await process_single(request_data)
BatchStep(requests, i, results, result) ==
    IF result.exc # "none" THEN result
    ELSE BatchAppend(requests, i, results, JsonLoads(result.val.body))

BatchLoop(requests, i, results) ==
    IF i > Len(requests) THEN Return(results)
    ELSE BatchStep(requests, i, results, process_single(requests[i]))

BatchReturn(results) ==
    IF results.exc # "none" THEN results
    ELSE Return(JsonResponse(JArray(results.val), 200))

process_batch(requests) ==
    IF requests = <<>>
    THEN Return(JsonResponse(
             JArray(<<create_response(PyNone, ErrorObj(INVALID_REQUEST, "Empty batch"), PyNone)>>),
             400))
    ELSE BatchReturn(BatchLoop(requests, 1, <<>>))

(***************************************************************************)
(* Envelope classification at the transport.                               *)
(***************************************************************************)
\* Mutant: the notification test looks at the value of id, as
\* process_single does, and so needs a well-formed envelope to see it.
is_notification_or_response_ByValue(body) ==
    IF IsDict(body)
    THEN \/ (Truthy(Get(body.method)) /\ Get(body.id) = PyNone)
         \/ ((body.result # Absent \/ body.error # Absent) /\ body.method = Absent)
    ELSE FALSE

is_notification_or_response(body) ==
    IF IsDict(body)
    THEN \/ (body.method # Absent /\ body.id = Absent)
         \/ ((body.result # Absent \/ body.error # Absent) /\ body.method = Absent)
    ELSE FALSE

StreamingMethods == <<"stream_data", "get_weather", "calculate">>

\* Mutant: the stream flag must be the JSON value true itself.
RECURSIVE StreamingChain_IsTrue(_, _, _)
StreamingChain_IsTrue(method, params, i) ==
    IF i > Len(StreamingMethods) THEN Return(FALSE)
    ELSE IF method = JStr(StreamingMethods[i])
         THEN IF params.k # "obj" THEN NoGet(params)
              ELSE IF Get(params.stream) = JBool(TRUE) THEN Return(TRUE)
              ELSE StreamingChain_IsTrue(method, params, i + 1)
         ELSE StreamingChain_IsTrue(method, params, i + 1)

\* The "or" chain of is_streaming_request from its i-th disjunct on:
\* params.get is evaluated only once the method comparison succeeded.
RECURSIVE StreamingChain(_, _, _)
StreamingChain(method, params, i) ==
    IF i > Len(StreamingMethods) THEN Return(FALSE)
    ELSE IF method = JStr(StreamingMethods[i])
         THEN IF params.k # "obj" THEN NoGet(params)
              ELSE IF PyEqTrue(Get(params.stream)) THEN Return(TRUE)
              ELSE StreamingChain(method, params, i + 1)
         ELSE StreamingChain(method, params, i + 1)

is_streaming_request_IsTrue(body) ==
    IF IsDict(body)
    THEN StreamingChain_IsTrue(Get(body.method), ParamsOf(body), 1)
    ELSE Return(FALSE)

is_streaming_request(body) ==
    IF IsDict(body)
    THEN StreamingChain(Get(body.method), ParamsOf(body), 1)
    ELSE Return(FALSE)

(***************************************************************************)
(* Streaming encoder: the generator handle_streaming_request.  Its state   *)
(* is the suspension point it is at and the loop index.                    *)
(***************************************************************************)
SSE(obj) == [data |-> JsonDumps(obj)]

Gen(at, i) == [at |-> at, i |-> i]
GenIdle == Gen("none", 0)
GenInit == Gen("init", 0)

Yield(obj, g) == [out |-> <<SSE(obj)>>, g |-> g]
Stop == [out |-> <<>>, g |-> Gen("closed", 0)]

\* The "except Exception" clause of the generator.
Except(e, request_id) ==
    Yield(create_response(PyNone, ErrorObj(INTERNAL_ERROR, e.msg), request_id),
          Gen("ended", 0))

weather_data(location) ==
    << [field |-> JStr("location"), value |-> location],
       [field |-> JStr("temperature"), value |-> JStr("22C")],
       [field |-> JStr("condition"), value |-> JStr("clear")],
       [field |-> JStr("humidity"), value |-> JStr("65%")] >>

\* range(count): TypeError unless count is an integer.
Range(count) ==
    IF count.k \in {"int", "bool"}
    THEN Return(IF count.n < 0 THEN 0 ELSE count.n)
    ELSE Raise("TypeError", "object cannot be interpreted as an integer")

\* The arithmetic of the streaming calculate branch: no "else" clause, so
\* an unknown operation leaves "result" unbound.
StreamCalculate(operation, a, b) ==
    CASE operation = JStr("add") -> PyBinOp("+", a, b)
      [] operation = JStr("subtract") -> PyBinOp("-", a, b)
      [] operation = JStr("multiply") -> PyBinOp("*", a, b)
      [] operation = JStr("divide") -> PyBinOp("/", a, b)
      [] OTHER -> Raise("UnboundLocalError", "local variable 'result' referenced before assignment")

\* Mutant: the start frame is not emitted; the first frame is a data frame.
GenWeather_NoStart(method, params, request_id, g) ==
    LET location == GetDefault(params.location, JStr("Seoul"))
        data == weather_data(location)
    IN CASE g.at \in {"init", "loop"} /\ g.i < Len(data) ->
              Yield(create_response([status |-> JStr("data")] @@ data[g.i + 1], PyNone, request_id),
                    Gen("loop", g.i + 1))
         [] g.at = "loop" /\ g.i >= Len(data) ->
              Yield(create_response([status |-> JStr("complete"), tool |-> method], PyNone, request_id),
                    Gen("ended", 0))
         [] OTHER -> Stop

GenWeather(method, params, request_id, g) ==
    LET location == GetDefault(params.location, JStr("Seoul"))
        data == weather_data(location)
    IN CASE g.at = "init" ->
              Yield(create_response([status |-> JStr("start"), tool |-> method], PyNone, request_id),
                    Gen("loop", 0))
         [] g.at = "loop" /\ g.i < Len(data) ->
              Yield(create_response([status |-> JStr("data")] @@ data[g.i + 1], PyNone, request_id),
                    Gen("loop", g.i + 1))
         [] g.at = "loop" /\ g.i >= Len(data) ->
              Yield(create_response([status |-> JStr("complete"), tool |-> method], PyNone, request_id),
                    Gen("ended", 0))
         [] OTHER -> Stop

\* The last yield of the calculate branch, or the except clause when the
\* arithmetic (or reading the unbound "result") raised.
CalculateComplete(r, request_id) ==
    IF r.exc # "none" THEN Except(r, request_id)
    ELSE Yield(create_response([status |-> JStr("complete"), result |-> r.val],
                               PyNone, request_id),
               Gen("ended", 0))

\* Mutant: the "return" after the division-by-zero error frame is missing,
\* so the generator goes on to the arithmetic.
GenCalculate_NoReturn(method, params, request_id, g) ==
    LET operation == Get(params.operation)
        a == Get(params.a)
        b == Get(params.b)
    IN CASE g.at = "init" ->
              Yield(create_response([status |-> JStr("start"), tool |-> method,
                                     operation |-> operation], PyNone, request_id),
                    Gen("started", 0))
         [] g.at = "started" /\ operation = JStr("divide") /\ PyEqZero(b) ->
              Yield(create_response(PyNone, ErrorObj(INVALID_PARAMS, "Division by zero"),
                                    request_id),
                    Gen("fell", 0))
         [] g.at \in {"started", "fell"} ->
              CalculateComplete(StreamCalculate(operation, a, b), request_id)
         [] OTHER -> Stop

GenCalculate(method, params, request_id, g) ==
    LET operation == Get(params.operation)
        a == Get(params.a)
        b == Get(params.b)
    IN CASE g.at = "init" ->
              Yield(create_response([status |-> JStr("start"), tool |-> method,
                                     operation |-> operation], PyNone, request_id),
                    Gen("started", 0))
         [] g.at = "started" ->
              IF operation = JStr("divide") /\ PyEqZero(b)
              THEN Yield(create_response(PyNone, ErrorObj(INVALID_PARAMS, "Division by zero"),
                                         request_id),
                         Gen("ended", 0))
              ELSE CalculateComplete(StreamCalculate(operation, a, b), request_id)
         [] OTHER -> Stop

\* Mutant: the data frames carry the loop variable itself (0, 1, ...), not
\* the one-based index.
StreamDataLoop_ZeroBased(count, n, method, request_id, g) ==
       CASE g.at = "init" ->
              Yield(create_response([status |-> JStr("start"), tool |-> method, count |-> count],
                                    PyNone, request_id),
                    Gen("loop", 0))
         [] g.at = "loop" /\ n.exc # "none" -> Except(n, request_id)
         [] g.at = "loop" /\ n.exc = "none" /\ g.i < n.val ->
              Yield(create_response([status |-> JStr("data"), index |-> JInt(g.i),
                                     value |-> JStr("data " \o ToString(g.i))],
                                    PyNone, request_id),
                    Gen("loop", g.i + 1))
         [] g.at = "loop" /\ n.exc = "none" /\ g.i >= n.val ->
              Yield(create_response([status |-> JStr("complete"), total |-> count],
                                    PyNone, request_id),
                    Gen("ended", 0))
         [] OTHER -> Stop

StreamDataLoop(count, n, method, request_id, g) ==
       CASE g.at = "init" ->
              Yield(create_response([status |-> JStr("start"), tool |-> method, count |-> count],
                                    PyNone, request_id),
                    Gen("loop", 0))
         [] g.at = "loop" /\ n.exc # "none" -> Except(n, request_id)
         [] g.at = "loop" /\ n.exc = "none" /\ g.i < n.val ->
              Yield(create_response([status |-> JStr("data"), index |-> JInt(g.i + 1),
                                     value |-> JStr("data " \o ToString(g.i + 1))],
                                    PyNone, request_id),
                    Gen("loop", g.i + 1))
         [] g.at = "loop" /\ n.exc = "none" /\ g.i >= n.val ->
              Yield(create_response([status |-> JStr("complete"), total |-> count],
                                    PyNone, request_id),
                    Gen("ended", 0))
         [] OTHER -> Stop

GenStreamData(method, params, request_id, g) ==
    StreamDataLoop(GetDefault(params.count, JInt(5)),
                   Range(GetDefault(params.count, JInt(5))), method, request_id, g)

\* One resumption of the generator: the frame it yields next (or none,
\* when it runs off its end) and the suspension point it stops at.
handle_streaming_request(request_data, g) ==
    LET method == Get(request_data.method)
        params == ParamsOf(request_data)
        \* request_data.get("id", str(uuid.uuid4()))
        request_id == GetDefault(request_data.id, JStr("<uuid4>"))
    IN CASE method = JStr("get_weather") -> GenWeather(method, params, request_id, g)
         [] method = JStr("calculate") -> GenCalculate(method, params, request_id, g)
         [] method = JStr("stream_data") -> GenStreamData(method, params, request_id, g)
         [] OTHER -> Stop

(***************************************************************************)
(* Session/transport gate.  A header value is Absent or a sequence of      *)
(* tokens whose concatenation is the header's text, so that startswith is  *)
(* a prefix test and "x in accept" a membership test on tokens.            *)
(***************************************************************************)
Hdr(toks) == [present |-> TRUE, toks |-> toks]
NoHdr == [present |-> FALSE, toks |-> <<>>]

Headers(origin, accept, version, session) ==
    [origin |-> origin, accept |-> accept, version |-> version, session |-> session]

StartsWith(s, p) == Len(p) <= Len(s) /\ SubSeq(s, 1, Len(p)) = p

Contains(s, tok) == \E i \in 1..Len(s) : s[i] = tok

HTTPException(status_code, detail) ==
    [exc |-> "HTTPException", status_code |-> status_code, detail |-> detail]

\* Mutant: the origin is looked for anywhere in the header instead of at
\* its start.
validate_mcp_headers_OriginContains(h) ==
    LET origin == h.origin.toks
        accept == h.accept.toks
        protocol_version == h.version.toks
    IN IF origin # <<>> /\ ~(Contains(origin, "localhost") \/ Contains(origin, "127.0.0.1"))
       THEN HTTPException(403, <<"Invalid origin">>)
       ELSE IF ~Contains(accept, "application/json") /\ ~Contains(accept, "text/event-stream")
       THEN HTTPException(400, <<"Accept header must include application/json and/or text/event-stream">>)
       ELSE IF protocol_version # <<>> /\ protocol_version # <<MCP_PROTOCOL_VERSION>>
       THEN HTTPException(400, <<"Unsupported MCP protocol version: ">> \o protocol_version)
       ELSE Return(TRUE)

\* Mutant: the protocol version is not looked at.
validate_mcp_headers_AnyVersion(h) ==
    LET origin == h.origin.toks
        accept == h.accept.toks
    IN IF origin # <<>> /\ ~(StartsWith(origin, <<"http://", "localhost", ":">>)
                             \/ StartsWith(origin, <<"http://", "127.0.0.1", ":">>))
       THEN HTTPException(403, <<"Invalid origin">>)
       ELSE IF ~Contains(accept, "application/json") /\ ~Contains(accept, "text/event-stream")
       THEN HTTPException(400, <<"Accept header must include application/json and/or text/event-stream">>)
       ELSE Return(TRUE)

\* Mutant: both media kinds must be named ("or" for "and").
validate_mcp_headers_BothKinds(h) ==
    LET origin == h.origin.toks
        accept == h.accept.toks
        protocol_version == h.version.toks
    IN IF origin # <<>> /\ ~(StartsWith(origin, <<"http://", "localhost", ":">>)
                             \/ StartsWith(origin, <<"http://", "127.0.0.1", ":">>))
       THEN HTTPException(403, <<"Invalid origin">>)
       ELSE IF ~Contains(accept, "application/json") \/ ~Contains(accept, "text/event-stream")
       THEN HTTPException(400, <<"Accept header must include application/json and/or text/event-stream">>)
       ELSE IF protocol_version # <<>> /\ protocol_version # <<MCP_PROTOCOL_VERSION>>
       THEN HTTPException(400, <<"Unsupported MCP protocol version: ">> \o protocol_version)
       ELSE Return(TRUE)

\* request.headers.get(name) / .get(name, ""): a missing header and an
\* empty one are both falsy and contain nothing.
\* Mutant: the Accept header is checked before the Origin header.
validate_mcp_headers_AcceptFirst(h) ==
    LET origin == h.origin.toks
        accept == h.accept.toks
        protocol_version == h.version.toks
    IN IF ~Contains(accept, "application/json") /\ ~Contains(accept, "text/event-stream")
       THEN HTTPException(400, <<"Accept header must include application/json and/or text/event-stream">>)
       ELSE IF origin # <<>> /\ ~(StartsWith(origin, <<"http://", "localhost", ":">>)
                                  \/ StartsWith(origin, <<"http://", "127.0.0.1", ":">>))
       THEN HTTPException(403, <<"Invalid origin">>)
       ELSE IF protocol_version # <<>> /\ protocol_version # <<MCP_PROTOCOL_VERSION>>
       THEN HTTPException(400, <<"Unsupported MCP protocol version: ">> \o protocol_version)
       ELSE Return(TRUE)

validate_mcp_headers(h) ==
    LET origin == h.origin.toks
        accept == h.accept.toks
        protocol_version == h.version.toks
    IN IF origin # <<>> /\ ~(StartsWith(origin, <<"http://", "localhost", ":">>)
                             \/ StartsWith(origin, <<"http://", "127.0.0.1", ":">>))
       THEN HTTPException(403, <<"Invalid origin">>)
       ELSE IF ~Contains(accept, "application/json") /\ ~Contains(accept, "text/event-stream")
       THEN HTTPException(400, <<"Accept header must include application/json and/or text/event-stream">>)
       ELSE IF protocol_version # <<>> /\ protocol_version # <<MCP_PROTOCOL_VERSION>>
       THEN HTTPException(400, <<"Unsupported MCP protocol version: ">> \o protocol_version)
       ELSE Return(TRUE)

\* FastAPI's answer to an HTTPException: the status and {"detail": ...}.
HttpError(e) == JsonResponse([detail |-> e.detail], e.status_code)

(***************************************************************************)
(* POST /mcp.                                                              *)
(***************************************************************************)
\* await request.json(): json.loads on the bytes of the body, which are
\* decoded before they are parsed.
RequestJson(body) ==
    CASE body.k = "invalid" -> Raise("JSONDecodeError", "Expecting value")
      [] body.k = "undecodable" ->
           Raise("UnicodeDecodeError", "'utf-8' codec can't decode byte 0xff")
      [] OTHER -> Return(body)

\* StreamingResponse(generator, media_type="text/event-stream", headers={...})
StreamingHeaders ==
    {Header("Cache-Control", <<"no-cache">>),
     Header("Connection", <<"keep-alive">>),
     Header("Access-Control-Allow-Origin", <<"*">>)}

StreamingResponse ==
    [Response(EmptyBody, "text/event-stream", 200) EXCEPT !.headers = StreamingHeaders]

\* Mutant: a top-level value that is neither an object nor an array is
\* refused as if it had not parsed.
PostDispatch_NonObjectParseError(body, streaming) ==
    IF streaming.exc # "none" THEN streaming
    ELSE IF streaming.val THEN Return(StreamingResponse)
    ELSE IF body.k = "array" THEN process_batch(body.items)
    ELSE IF ~IsDict(body) THEN Raise("JSONDecodeError", "Expecting value")
    ELSE process_single(body)

\* The try block of handle_mcp_post: a Response, or the exception that
\* leaves it.
PostDispatch(body, streaming) ==
    IF streaming.exc # "none" THEN streaming
    ELSE IF streaming.val THEN Return(StreamingResponse)
    ELSE IF body.k = "array" THEN process_batch(body.items)
    ELSE process_single(body)

PostTry(body) ==
    IF RequestJson(body).exc # "none" THEN RequestJson(body)
    ELSE IF is_notification_or_response(body) THEN Return(Accepted)
    ELSE PostDispatch(body, is_streaming_request(body))

\* The except clauses of handle_mcp_post.
PostExcept(r) ==
    CASE r.exc = "none" -> r.val
      [] r.exc = "JSONDecodeError" ->
           JsonResponse(create_response(PyNone, ErrorObj(PARSE_ERROR, "Parse error"), PyNone), 400)
      [] OTHER ->
           JsonResponse(create_response(PyNone, ErrorObj(INTERNAL_ERROR, r.msg), PyNone), 500)

PostGated(gate, body) ==
    IF gate.exc # "none" THEN HttpError(gate) ELSE PostExcept(PostTry(body))

handle_mcp_post(request) ==
    PostGated(validate_mcp_headers(request.headers), request.body)

(***************************************************************************)
(* The invocations of execute_tool a POST makes, in order: the effect of   *)
(* an exchange on the capabilities, besides its response.                  *)
(***************************************************************************)
Invocation(tool_name, params) == [tool_name |-> tool_name, params |-> params]

\* process_single reaches "await execute_tool(method, params)" only past
\* its validations, the id test and the TOOLS lookup.
SingleCalls(request_data) ==
    IF /\ IsDict(request_data)
       /\ Get(request_data.jsonrpc) = JStr("2.0")
       /\ Truthy(Get(request_data.method))
       /\ Get(request_data.id) # PyNone
       /\ Get(request_data.method).k = "str"
       /\ Get(request_data.method).s \in TOOLS
    THEN <<Invocation(request_data.method.s, ParamsOf(request_data))>>
    ELSE <<>>

\* The loop of process_batch runs process_single element by element and
\* stops at the first element whose iteration raises.
RECURSIVE BatchCalls(_, _)
BatchCalls(requests, i) ==
    IF i > Len(requests) THEN <<>>
    ELSE IF BatchStep(<<requests[i]>>, 1, <<>>, process_single(requests[i])).exc # "none"
    THEN SingleCalls(requests[i])
    ELSE SingleCalls(requests[i]) \o BatchCalls(requests, i + 1)

\* handle_mcp_post: nothing is invoked for a request the gate rejects, a
\* body that does not parse, a body answered with 202 at once, or a body
\* handed to the streaming generator (which calls no tool function).
PostCallsDispatch(body, streaming) ==
    IF streaming.exc # "none" \/ streaming.val THEN <<>>
    ELSE IF body.k = "array" THEN BatchCalls(body.items, 1)
    ELSE SingleCalls(body)

PostCalls(request) ==
    IF validate_mcp_headers(request.headers).exc # "none" THEN <<>>
    ELSE IF RequestJson(request.body).exc # "none" THEN <<>>
    ELSE IF is_notification_or_response(request.body) THEN <<>>
    ELSE PostCallsDispatch(request.body, is_streaming_request(request.body))

(***************************************************************************)
(* GET /mcp: the server-push stream.                                       *)
(***************************************************************************)
Heartbeats == 5

ServerNotification(message) ==
    [jsonrpc |-> "2.0", method |-> "server_notification", params |-> [message |-> message]]

\* One resumption of sse_stream.
sse_stream(g) ==
    CASE g.at = "init" -> Yield(ServerNotification("SSE stream started"), Gen("loop", 0))
      [] g.at = "loop" /\ g.i < Heartbeats ->
           Yield(ServerNotification("Server heartbeat " \o ToString(g.i + 1)), Gen("loop", g.i + 1))
      [] OTHER -> Stop

\* Mutant: the handler does not look at the Accept header again.
GetGated_NoAcceptCheck(gate, accept) ==
    IF gate.exc # "none" THEN HttpError(gate)
    ELSE StreamingResponse

GetGated(gate, accept) ==
    IF gate.exc # "none" THEN HttpError(gate)
    ELSE IF ~Contains(accept, "text/event-stream")
    THEN HttpError(HTTPException(405, <<"Method Not Allowed - SSE not supported">>))
    ELSE StreamingResponse

handle_mcp_get(request) ==
    GetGated(validate_mcp_headers(request.headers), request.headers.accept.toks)

(***************************************************************************)
(* The requests a client sends, within the bounds.                         *)
(***************************************************************************)
Envelope(jsonrpc, method, id, params, result, error) ==
    [k |-> "object", jsonrpc |-> jsonrpc, method |-> method, id |-> id,
     params |-> params, result |-> result, error |-> error]

Ids == {Absent, PyNone, JInt(1), JStr("a")}
Versions == {Absent, JStr("2.0"), JStr("1.0")}
Streams == {Absent, JBool(TRUE), JBool(FALSE), JInt(1)}
Operations == {Absent} \cup {JStr(o) : o \in {"add", "subtract", "multiply", "divide", "pow"}}
Operands == {Absent, JStr("x")} \cup {JInt(n) : n \in -1..MaxNum}
Counts == {Absent, PyNone, JStr("x")} \cup {JInt(n) : n \in -1..MaxCount}
Locations == {Absent, JStr("Busan")}
Members == {Absent, JStr("present")}

OtherMethods ==
    {Absent, PyNone, JStr(""), JStr("nonexistent_tool"), JStr("Calculate"), JInt(7), JList("m")}

NonObjectParams == {NoParams, NullParams, ListParams}

WeatherParams ==
    {Params("obj", st, Absent, Absent, Absent, Absent, loc) : st \in Streams, loc \in Locations}

CalculateParams ==
    {Params("obj", st, op, ab[1], ab[2], Absent, Absent) :
        st \in Streams, op \in Operations, ab \in Operands \X Operands}

StreamDataParams ==
    {Params("obj", st, Absent, Absent, Absent, c, Absent) : st \in Streams, c \in Counts}

OtherParams ==
    {Params("obj", st, Absent, Absent, Absent, Absent, Absent) : st \in {Absent, JBool(TRUE)}}

ToolCalls ==
    ({JStr("get_weather")} \X (WeatherParams \cup NonObjectParams))
    \cup ({JStr("calculate")} \X (CalculateParams \cup NonObjectParams))
    \cup ({JStr("stream_data")} \X (StreamDataParams \cup NonObjectParams))

Envelopes ==
    {Envelope(v, mp[1], id, mp[2], Absent, Absent) :
        v \in Versions, id \in Ids, mp \in ToolCalls}
    \cup {Envelope(v, m, id, p, r, e) :
        v \in Versions, id \in Ids, m \in OtherMethods,
        p \in OtherParams \cup {NoParams, ListParams}, r \in Members, e \in Members}

Scalar == [k |-> "scalar"]

\* Top-level JSON values that are neither an object nor an array.
Scalars == {PyNone, JInt(7), JStr("a"), JBool(TRUE)}

\* The elements batches are built from: one of each kind of outcome.
BatchElements ==
    LET V == JStr("2.0")
        calc(op, a, b, st) == Params("obj", st, JStr(op), JInt(a), JInt(b), Absent, Absent)
        weather(st) == Params("obj", st, Absent, Absent, Absent, Absent, JStr("Busan"))
    IN { Envelope(V, JStr("get_weather"), JInt(1), weather(Absent), Absent, Absent),
         Envelope(V, JStr("calculate"), JStr("a"), calc("add", 1, 2, Absent), Absent, Absent),
         Envelope(V, JStr("calculate"), JInt(1), calc("divide", 1, 0, Absent), Absent, Absent),
         Envelope(V, JStr("get_weather"), JStr("a"), weather(JBool(TRUE)), Absent, Absent),
         Envelope(V, JStr("get_weather"), JInt(1), ListParams, Absent, Absent),
         Envelope(V, JStr("get_weather"), Absent, weather(Absent), Absent, Absent),
         Envelope(V, JStr("get_weather"), PyNone, weather(Absent), Absent, Absent),
         Envelope(V, JStr("nonexistent_tool"), JInt(1), NoParams, Absent, Absent),
         Envelope(V, JList("m"), JInt(1), NoParams, Absent, Absent),
         Envelope(JStr("1.0"), JStr("get_weather"), JStr("a"), NoParams, Absent, Absent),
         Envelope(V, Absent, Absent, NoParams, Absent, Absent),
         Envelope(V, Absent, JInt(1), NoParams, JStr("present"), Absent),
         Scalar }

RECURSIVE SeqsUpTo(_, _)
SeqsUpTo(S, n) ==
    IF n = 0 THEN {<<>>}
    ELSE LET shorter == SeqsUpTo(S, n - 1)
         IN shorter \cup {Append(q, x) : q \in shorter, x \in S}

Batches == {[k |-> "array", items |-> q] : q \in SeqsUpTo(BatchElements, MaxBatch)}

Bodies ==
    Envelopes \cup Batches \cup Scalars
    \cup {Scalar, [k |-> "invalid"], [k |-> "undecodable"]}

Origins ==
    {NoHdr, Hdr(<<>>),
     Hdr(<<"http://", "localhost", ":", "3000">>),
     Hdr(<<"http://", "127.0.0.1", ":", "8000">>),
     Hdr(<<"https://", "evil.example">>),
     Hdr(<<"http://", "localhost", ".evil.example">>)}

Accepts ==
    {NoHdr,
     Hdr(<<"application/json">>),
     Hdr(<<"text/event-stream">>),
     Hdr(<<"application/json", ", ", "text/event-stream">>),
     Hdr(<<"text/html">>)}

ProtocolVersions == {NoHdr, Hdr(<<>>), Hdr(<<"2025-06-18">>), Hdr(<<"2024-11-05">>)}

SessionIds == {NoHdr, Hdr(<<"s1">>)}

AllHeaders ==
    {Headers(o, a, v, s) : o \in Origins, a \in Accepts, v \in ProtocolVersions, s \in SessionIds}

\* MCPClient.get_headers, without and with a session id.
ClientHeaders ==
    {Headers(NoHdr, Hdr(<<"application/json", ", ", "text/event-stream">>),
             Hdr(<<MCP_PROTOCOL_VERSION>>), s) : s \in SessionIds}

\* Bodies sent under every combination of headers.
ProbeBodies ==
    { [k |-> "invalid"],
      [k |-> "array", items |-> <<>>],
      Envelope(JStr("2.0"), JStr("get_weather"), JInt(1), NoParams, Absent, Absent),
      Envelope(JStr("2.0"), JStr("get_weather"), Absent, NoParams, Absent, Absent),
      Envelope(JStr("2.0"), JStr("stream_data"), JInt(1),
               Params("obj", JBool(TRUE), Absent, Absent, Absent, JInt(1), Absent), Absent, Absent) }

HttpRequest(http, headers, body) == [http |-> http, headers |-> headers, body |-> body]

PostRequests ==
    {HttpRequest("POST", h, b) : h \in ClientHeaders, b \in Bodies}
    \cup {HttpRequest("POST", h, b) : h \in AllHeaders, b \in ProbeBodies}

GetRequests == {HttpRequest("GET", h, [k |-> "none"]) : h \in AllHeaders}

(***************************************************************************)
(* The SSE demo server (src/python/sse/sse_server.py): a Flask application *)
(* on a threaded WSGI server.  /sse answers with a Response over the       *)
(* generator event_stream, which the server iterates in the thread of the  *)
(* connection: it runs the generator up to its next yield, writes the      *)
(* frame to the socket and resumes it; when the write fails it closes the  *)
(* generator.  The module-level dict "clients" is shared by all threads.   *)
(***************************************************************************)
MaxUuids == 3

Uuids == {"u" \o ToString(i) : i \in 1..MaxUuids}

\* The connections the server has a thread for.
Conns == {"c1", "c2"}

\* Mutant: uuid4 may return a value it has returned before.
uuid4_Repeating(issued) == Uuids

\* str(uuid.uuid4()): the values the next call may return, given those
\* returned so far.
uuid4(issued) == Uuids \ issued

SseOrigins ==
    {NoHdr,
     Hdr(<<"http://", "localhost", ":", "5000">>),
     Hdr(<<"https://", "evil.example">>)}

FlaskResponse(body, media_type, status_code) ==
    [status_code |-> status_code, media_type |-> media_type, body |-> body]

jsonify(obj, status_code) ==
    FlaskResponse([k |-> "json", doc |-> obj], "application/json", status_code)

\* Response(generator, mimetype='text/event-stream')
EventStream == FlaskResponse([k |-> "generator"], "text/event-stream", 200)

NoFlaskResponse == FlaskResponse([k |-> "empty"], "none", 0)

\* The decorator: the wrapped view is called only when the Origin header
\* is absent, empty or starts with an allowed prefix.
validate_origin(origin, f) ==
    IF origin.toks # <<>> /\ ~(StartsWith(origin.toks, <<"http://", "localhost", ":">>)
                               \/ StartsWith(origin.toks, <<"http://", "127.0.0.1", ":">>))
    THEN jsonify([error |-> "Invalid origin"], 403)
    ELSE f

\* The value event_stream stores in clients[client_id].
Registration(client_id) ==
    [id |-> client_id, message_endpoint |-> <<"/message/", client_id>>]

\* f'event: {event}\ndata: {json.dumps(data)}\n\n'
SseEvent(event, data) == [event |-> event, data |-> data]

\* The view of /sse.
sse_endpoint(origin) == validate_origin(origin, EventStream)

\* The JSON bodies POSTed to /message/<client_id>: the empty object, a
\* request for messages, another request, a notification of another method.
SseMessages ==
    { [method |-> Absent, id |-> Absent],
      [method |-> JStr("request_messages"), id |-> JInt(1)],
      [method |-> JStr("ping"), id |-> JInt(1)],
      [method |-> JStr("ping"), id |-> Absent] }

\* "not message" on the dict.
EmptyMessage(message) == message.method = Absent /\ message.id = Absent

\* The body of the view of /message/<client_id>.
MessageView(client_id, message, registry) ==
    IF client_id \notin DOMAIN registry
    THEN jsonify([error |-> "Invalid client ID"], 400)
    ELSE IF EmptyMessage(message)
    THEN jsonify([error |-> "Invalid JSON"], 400)
    ELSE IF Get(message.method) = JStr("request_messages")
    THEN EventStream
    ELSE jsonify([jsonrpc |-> "2.0", id |-> Get(message.id),
                  result |-> [echo |-> message, timestamp |-> Now]], 200)

message_endpoint(client_id, origin, message, registry) ==
    validate_origin(origin, MessageView(client_id, message, registry))

ServerMessages == 5

\* The i-th frame of stream_response.
server_message(i) ==
    SseEvent("message",
             [jsonrpc |-> "2.0", id |-> JInt(i), method |-> "server_message",
              params |-> [message |-> <<"message", i, "/", ServerMessages>>,
                          timestamp |-> Now]])

\* A /sse connection: where its generator is, the local client_id, whether
\* the client is still there, the frames yielded, and the parity of the
\* time slept in the loop.
Stream(at, client_id, connected, out, tick) ==
    [at |-> at, client_id |-> client_id, connected |-> connected, out |-> out,
     tick |-> tick]

NoStream == Stream("idle", "", FALSE, <<>>, 0)

\* The exchange on /message/<client_id> being served, if any.
Posted(client_id, origin, message, response, out, at) ==
    [client_id |-> client_id, origin |-> origin, message |-> message,
     resp |-> response, out |-> out, at |-> at]

NoPosted == Posted("", NoHdr, [method |-> Absent, id |-> Absent], NoFlaskResponse, <<>>, "idle")

\* "del clients[client_id]"
Del(registry, client_id) == [x \in DOMAIN registry \ {client_id} |-> registry[x]]

(***************************************************************************)
(* The server as a state machine.                                          *)
(***************************************************************************)
NoRequest == [http |-> "none"]
NoResponse == Response(EmptyBody, "none", 0)

\* An exchange in flight: what the sequential variables hold, per exchange.
Exchange(request, response, sent, generator, at) ==
    [req |-> request, resp |-> response, frames |-> sent, gen |-> generator, pc |-> at]

IdleExchange == Exchange(NoRequest, NoResponse, <<>>, GenIdle, "idle")

\* The tasks the event loop interleaves.
Exchanges == {"e1", "e2"}

Init ==
    /\ req = NoRequest
    /\ resp = NoResponse
    /\ frames = <<>>
    /\ gen = GenIdle
    /\ pc = "idle"
    /\ calls = <<>>
    /\ conc = [x \in Exchanges |-> IdleExchange]
    /\ tools = TOOLS
    /\ clients = <<>>
    /\ uuids = {}
    /\ streams = [c \in Conns |-> NoStream]
    /\ posted = NoPosted

IsStream(r) == r.status_code = 200 /\ r.media_type = "text/event-stream"

\* A handler ran to its return: the response head (and unary body) is sent;
\* a StreamingResponse leaves its generator to be resumed frame by frame.
Answer(r) ==
    /\ resp' = r
    /\ frames' = <<>>
    /\ gen' = IF IsStream(r) THEN GenInit ELSE GenIdle
    /\ pc' = IF IsStream(r) THEN "streaming" ELSE "done"

Post ==
    /\ pc = "idle"
    /\ req' \in PostRequests
    /\ Answer(handle_mcp_post(req'))
    /\ calls' = PostCalls(req')
    /\ UNCHANGED many

GetMcp ==
    /\ pc = "idle"
    /\ req' \in GetRequests
    /\ Answer(handle_mcp_get(req'))
    /\ calls' = <<>>
    /\ UNCHANGED many

\* The response writer resumes the generator once.
Resumed(s) ==
    /\ frames' = frames \o s.out
    /\ gen' = s.g
    /\ pc' = IF s.g.at = "closed" THEN "done" ELSE "streaming"
    /\ UNCHANGED <<req, resp, calls, conc, tools, demo>>

Resume ==
    /\ pc = "streaming"
    /\ Resumed(IF req.http = "POST" THEN handle_streaming_request(req.body, gen)
               ELSE sse_stream(gen))

\* Mutant: the cancellation is caught by the generator's "except Exception"
\* clause, which yields its error frame before the generator is closed.
Disconnect_CaughtAsException ==
    /\ pc = "streaming"
    /\ gen' = Gen("closed", 0)
    /\ pc' = "cancelled"
    /\ frames' = frames \o Except(Raise("CancelledError", ""), PyNone).out
    /\ UNCHANGED <<req, resp, calls, conc, tools, demo>>

\* The client goes away: the generator is closed where it is suspended.
Disconnect ==
    /\ pc = "streaming"
    /\ gen' = Gen("closed", 0)
    /\ pc' = "cancelled"
    /\ UNCHANGED <<req, resp, frames, calls, conc, tools, demo>>

\* The exchange is over and its envelope discarded; the server serves on.
Finish ==
    /\ pc \in {"done", "cancelled"}
    /\ req' = NoRequest
    /\ resp' = NoResponse
    /\ frames' = <<>>
    /\ gen' = GenIdle
    /\ pc' = "idle"
    /\ calls' = <<>>
    /\ UNCHANGED many

Next == Post \/ GetMcp \/ Resume \/ Disconnect \/ Finish

Spec == Init /\ [][Next]_vars

\* The response writer keeps iterating the generator of a StreamingResponse
\* for as long as the exchange is streaming.
LiveSpec == Spec /\ WF_vars(Resume)

(***************************************************************************)
(* Concurrent exchanges.  FastAPI runs each request as a task of one event *)
(* loop: a handler runs without interruption up to its return, and a       *)
(* streaming generator from one yield to the next, where it sleeps and     *)
(* other tasks run.  Each call of a handler has its own locals and each    *)
(* StreamingResponse its own generator object; the only module-level       *)
(* object the handlers read is TOOLS.                                      *)
(***************************************************************************)
ConcRequests ==
    LET V == JStr("2.0")
        h == Headers(NoHdr, Hdr(<<"application/json", ", ", "text/event-stream">>),
                     Hdr(<<MCP_PROTOCOL_VERSION>>), NoHdr)
        calc(op, a, st) == Params("obj", st, JStr(op), a, JInt(0), Absent, Absent)
        weather(st) == Params("obj", st, Absent, Absent, Absent, Absent, JStr("Busan"))
        data(st) == Params("obj", st, Absent, Absent, Absent, JInt(2), Absent)
        unary == Envelope(V, JStr("get_weather"), JInt(1), weather(Absent), Absent, Absent)
        failing == Envelope(V, JStr("calculate"), JStr("a"), calc("divide", JInt(1), Absent),
                            Absent, Absent)
    IN {HttpRequest("POST", h, b) :
            b \in {unary, failing,
                   [k |-> "array", items |-> <<unary, failing>>],
                   Envelope(V, JStr("get_weather"), Absent, weather(Absent), Absent, Absent),
                   Envelope(V, JStr("stream_data"), JInt(1), data(JBool(TRUE)), Absent, Absent),
                   Envelope(V, JStr("get_weather"), JStr("a"), weather(JBool(TRUE)),
                            Absent, Absent),
                   Envelope(V, JStr("calculate"), JInt(1),
                            calc("add", JStr("x"), JBool(TRUE)), Absent, Absent)}}
       \cup {HttpRequest("GET", h, [k |-> "none"])}

\* The handler of the request runs to its return.
Handled(request) ==
    IF request.http = "POST" THEN handle_mcp_post(request) ELSE handle_mcp_get(request)

Started(request, response) ==
    Exchange(request, response, <<>>,
             IF IsStream(response) THEN GenInit ELSE GenIdle,
             IF IsStream(response) THEN "streaming" ELSE "done")

Accept(x) ==
    /\ conc[x].pc = "idle"
    /\ \E request \in ConcRequests :
          conc' = [conc EXCEPT ![x] = Started(request, Handled(request))]
    /\ UNCHANGED <<one, tools, demo>>

\* One resumption of the generator of a request.
Step(request, g) ==
    IF request.http = "POST" THEN handle_streaming_request(request.body, g)
    ELSE sse_stream(g)

\* Mutant: one generator object at module level, the one of exchange "e1".
ExchangeGen_Shared(x) == conc["e1"].gen

\* The generator object the StreamingResponse of the exchange iterates.
ExchangeGen(x) == conc[x].gen

AfterStep(e, s) ==
    Exchange(e.req, e.resp, e.frames \o s.out, s.g,
             IF s.g.at = "closed" THEN "done" ELSE "streaming")

ResumeExchange(x) ==
    /\ conc[x].pc = "streaming"
    /\ conc' = [conc EXCEPT ![x] = AfterStep(conc[x], Step(conc[x].req, ExchangeGen(x)))]
    /\ UNCHANGED <<one, tools, demo>>

DisconnectExchange(x) ==
    /\ conc[x].pc = "streaming"
    /\ conc' = [conc EXCEPT ![x].gen = Gen("closed", 0), ![x].pc = "cancelled"]
    /\ UNCHANGED <<one, tools, demo>>

FinishExchange(x) ==
    /\ conc[x].pc \in {"done", "cancelled"}
    /\ conc' = [conc EXCEPT ![x] = IdleExchange]
    /\ UNCHANGED <<one, tools, demo>>

ConcNext ==
    \E x \in Exchanges :
        Accept(x) \/ ResumeExchange(x) \/ DisconnectExchange(x) \/ FinishExchange(x)

ConcSpec == Init /\ [][ConcNext]_vars

(***************************************************************************)
(* The SSE demo server as a state machine.                                 *)
(***************************************************************************)
\* The connections whose generator has started and not ended.
Running(c) == streams[c].at \in {"yielded", "waiting"}

\* uuid4 values the model still has for the connections that are open.
Spare ==
    Cardinality(Uuids \ uuids) - Cardinality({c \in Conns : streams[c].at = "created"})

\* GET /sse: sse_endpoint returns; the generator is created, not started.
SseConnect(c) ==
    /\ streams[c].at = "idle"
    /\ Spare > 0
    /\ \E origin \in SseOrigins :
          streams' = [streams EXCEPT ![c] =
              IF sse_endpoint(origin) = EventStream
              THEN Stream("created", "", TRUE, <<>>, 0)
              ELSE Stream("refused", "", TRUE, <<>>, 0)]
    /\ UNCHANGED <<clients, uuids, posted, one, conc, tools>>

\* The first next() of event_stream: up to its yield of the endpoint event.
StreamStart(c) ==
    /\ streams[c].at = "created"
    /\ \E client_id \in uuid4(uuids) :
          /\ uuids' = uuids \cup {client_id}
          /\ clients' = (client_id :> Registration(client_id)) @@ clients
          /\ streams' = [streams EXCEPT ![c] =
                Stream("yielded", client_id, streams[c].connected,
                       <<SseEvent("endpoint",
                                  [uri |-> clients'[client_id].message_endpoint])>>,
                       0)]
    /\ UNCHANGED <<posted, one, conc, tools>>

\* The "finally" clause of event_stream.
Cleanup(c) ==
    /\ clients' = IF streams[c].client_id \in DOMAIN clients
                  THEN Del(clients, streams[c].client_id) ELSE clients
    /\ streams' = [streams EXCEPT ![c].at = "ended"]

\* One test of "while client_id in clients" and the sleep of its body, or
\* the exit from the loop into the "finally" clause.
LoopOnce(c, tick) ==
    IF streams[c].client_id \in DOMAIN clients
    THEN /\ streams' = [streams EXCEPT ![c].at = "waiting", ![c].tick = tick]
         /\ UNCHANGED clients
    ELSE Cleanup(c)

\* The frame was written and the generator resumed: it enters the loop.
\* A write to a client that has just gone may still succeed.
WriteFrame(c) ==
    /\ streams[c].at = "yielded"
    /\ LoopOnce(c, 0)
    /\ UNCHANGED <<uuids, posted, one, conc, tools>>

\* The write failed: the server closes the generator, GeneratorExit is
\* raised at the yield, caught, and the "finally" clause runs.
WriteFails(c) ==
    /\ streams[c].at = "yielded"
    /\ ~streams[c].connected
    /\ Cleanup(c)
    /\ UNCHANGED <<uuids, posted, one, conc, tools>>

\* The loop goes round: nothing is yielded, nothing is written.
Sleep(c) ==
    /\ streams[c].at = "waiting"
    /\ LoopOnce(c, 1 - streams[c].tick)
    /\ UNCHANGED <<uuids, posted, one, conc, tools>>

\* The client of the connection goes away.
ClientDisconnect(c) ==
    /\ streams[c].at \in {"created", "yielded", "waiting"}
    /\ streams[c].connected
    /\ streams' = [streams EXCEPT ![c].connected = FALSE]
    /\ UNCHANGED <<clients, uuids, posted, one, conc, tools>>

\* The response is over and the thread of the connection returns.
Release(c) ==
    /\ streams[c].at \in {"ended", "refused"}
    /\ streams' = [streams EXCEPT ![c] = NoStream]
    /\ UNCHANGED <<clients, uuids, posted, one, conc, tools>>

\* POST /message/<client_id>: message_endpoint returns.
Message ==
    /\ posted.at = "idle"
    /\ \E client_id \in Uuids, origin \in SseOrigins, message \in SseMessages :
          posted' = Posted(client_id, origin, message,
                           message_endpoint(client_id, origin, message, clients), <<>>,
                           IF message_endpoint(client_id, origin, message, clients) = EventStream
                           THEN "streaming" ELSE "done")
    /\ UNCHANGED <<clients, uuids, streams, one, conc, tools>>

\* One resumption of stream_response.
MessageFrame ==
    /\ posted.at = "streaming"
    /\ posted' = IF Len(posted.out) < ServerMessages
                 THEN [posted EXCEPT !.out = Append(@, server_message(Len(@) + 1))]
                 ELSE [posted EXCEPT !.at = "done"]
    /\ UNCHANGED <<clients, uuids, streams, one, conc, tools>>

\* The exchange on /message/<client_id> is over.
MessageOver ==
    /\ posted.at = "done"
    /\ posted' = NoPosted
    /\ UNCHANGED <<clients, uuids, streams, one, conc, tools>>

SseNext ==
    \/ \E c \in Conns :
          SseConnect(c) \/ StreamStart(c) \/ WriteFrame(c) \/ WriteFails(c)
          \/ Sleep(c) \/ ClientDisconnect(c) \/ Release(c)
    \/ Message
    \/ MessageFrame
    \/ MessageOver

SseSpec == Init /\ [][SseNext]_vars

\* Every thread of the server keeps running.
SseLiveSpec ==
    /\ SseSpec
    /\ \A c \in Conns :
          /\ WF_vars(StreamStart(c))
          /\ WF_vars(WriteFrame(c) \/ WriteFails(c))
          /\ WF_vars(Sleep(c))
    /\ WF_vars(MessageFrame)

(***************************************************************************)
(* Vocabulary of the properties.                                           *)
(***************************************************************************)
GatePassed == validate_mcp_headers(req.headers).exc = "none"

\* A POST whose headers passed the gate and whose handler has returned.
PostAnswered == pc # "idle" /\ req.http = "POST" /\ GatePassed

PostedObject == PostAnswered /\ IsDict(req.body)

PostedBatch == PostAnswered /\ req.body.k = "array"

HasJson(r) == r.body.k = "json"
IsArrayDoc(doc) == "items" \in DOMAIN doc
IsObjectDoc(doc) == "jsonrpc" \in DOMAIN doc

\* A JSON-RPC response object: exactly one of result / error.
IsResponseObject(o) ==
    /\ IsObjectDoc(o)
    /\ o.jsonrpc = "2.0"
    /\ ("result" \in DOMAIN o) # ("error" \in DOMAIN o)

ErrorCodeIs(o, code) == "error" \in DOMAIN o /\ o.error.code = code

EchoesId(o, id) == "id" \in DOMAIN o /\ o.id = id

RegisteredMethod(e) == e.method.k = "str" /\ e.method.s \in TOOLS

IsNotification(e) == IsDict(e) /\ e.method # Absent /\ e.id = Absent

FrameDoc(f) == f.data.doc
FrameStatus(f) ==
    IF "result" \in DOMAIN FrameDoc(f) /\ "status" \in DOMAIN FrameDoc(f).result
    THEN FrameDoc(f).result.status.s ELSE "none"
IsStartFrame(f) == FrameStatus(f) = "start"
IsDataFrame(f) == FrameStatus(f) = "data"
IsCompleteFrame(f) == FrameStatus(f) = "complete"
IsErrorFrame(f) == "error" \in DOMAIN FrameDoc(f) /\ "result" \notin DOMAIN FrameDoc(f)
IsTerminalFrame(f) == IsCompleteFrame(f) \/ IsErrorFrame(f)

\* The exchange is a per-request stream (POST answered with SSE).
PostStream == PostAnswered /\ IsStream(resp)

(***************************************************************************)
(* Properties.                                                             *)
(***************************************************************************)

\* C1: every single POSTed object envelope with jsonrpc "2.0", a present id
\* and a method registered in TOOLS that is not served as a stream is
\* answered with exactly one response object that carries the request's id
\* and has exactly one of result / error.
C1_UnaryResponseEchoesId ==
    (/\ PostedObject
     /\ req.body.jsonrpc = JStr("2.0")
     /\ req.body.id # Absent
     /\ RegisteredMethod(req.body)
     /\ ~IsStream(resp))
    => /\ HasJson(resp)
       /\ IsResponseObject(resp.body.doc)
       /\ EchoesId(resp.body.doc, req.body.id)

\* C2: a POSTed notification (method present, id absent) is answered with
\* 202 and an empty body, whatever its method, params and jsonrpc value: no
\* result, no error object and no SSE frame is emitted for it.
C2_NotificationAccepted ==
    (PostAnswered /\ IsNotification(req.body))
    => /\ resp.status_code = 202
       /\ resp.body = EmptyBody
       /\ ~IsStream(resp)
       /\ frames = <<>>
       /\ pc = "done"

\* A notification whose capability would fail (calculate, divide by zero),
\* sent with a wrong protocol member and asking for a stream, was answered.
C2_Witness ==
    /\ PostAnswered /\ IsNotification(req.body)
    /\ req.body.method = JStr("calculate")
    /\ req.body.jsonrpc = JStr("1.0")
    /\ req.body.params.operation = JStr("divide")
    /\ req.body.params.b = JInt(0)
    /\ req.body.params.stream = JBool(TRUE)
    /\ resp.status_code = 202

\* What one element yields when it is dispatched on its own: the response
\* object of its unary dispatch, nothing when it is accepted with 202, an
\* internal-error object of its own when the dispatch raises.
OwnEntries(e, r) ==
    IF r.exc # "none"
    THEN <<create_response(PyNone, ErrorObj(INTERNAL_ERROR, r.msg),
                           IF IsDict(e) THEN Get(e.id) ELSE PyNone)>>
    ELSE IF r.val.body.k = "empty" THEN <<>>
    ELSE <<r.val.body.doc>>

RECURSIVE ElementwiseEntries(_)
ElementwiseEntries(items) ==
    IF items = <<>> THEN <<>>
    ELSE OwnEntries(Head(items), process_single(Head(items)))
         \o ElementwiseEntries(Tail(items))

NonNotifications(items) == SelectSeq(items, LAMBDA e : ~IsNotification(e))

\* The entry answers the element: a response object that echoes the
\* element's id when it has one.
AnswersElement(entry, e) ==
    /\ IsResponseObject(entry)
    /\ (IsDict(e) /\ e.id # Absent) => EchoesId(entry, e.id)

\* C3: a batch of N elements of which M are notifications is answered with
\* an array of exactly N-M response objects, the k-th answering the k-th
\* non-notification element.
C3_BatchOmitsNotifications ==
    (PostedBatch /\ req.body.items # <<>>)
    => /\ HasJson(resp)
       /\ IsArrayDoc(resp.body.doc)
       /\ Len(resp.body.doc.items) = Len(NonNotifications(req.body.items))
       /\ \A k \in 1..Len(resp.body.doc.items) :
              AnswersElement(resp.body.doc.items[k], NonNotifications(req.body.items)[k])

\* C6: in a non-empty batch the elements are processed in array order and a
\* failing element never aborts the batch: the array holds, in order, the
\* entry each element yields on its own.
C6_BatchNeverAborted ==
    (PostedBatch /\ req.body.items # <<>>)
    => /\ HasJson(resp)
       /\ IsArrayDoc(resp.body.doc)
       /\ resp.body.doc.items = ElementwiseEntries(req.body.items)

\* C7: the empty batch is answered with 400 and a single top-level error
\* object (not an array) with code -32600 and no id member.
C7_EmptyBatchSingleError ==
    (PostedBatch /\ req.body.items = <<>>)
    => /\ resp.status_code = 400
       /\ HasJson(resp)
       /\ ~IsArrayDoc(resp.body.doc)
       /\ IsResponseObject(resp.body.doc)
       /\ ErrorCodeIs(resp.body.doc, INVALID_REQUEST)
       /\ "id" \notin DOMAIN resp.body.doc

\* The same request with its id member set to id.
WithId(request, id) == [request EXCEPT !.body.id = id]

\* The document carries id where the twin's document carries the twin's id
\* and is otherwise the same.
SameButId(doc, twin, id) ==
    IF "id" \in DOMAIN twin
    THEN "id" \in DOMAIN doc /\ doc.id = id /\ [doc EXCEPT !.id = twin.id] = twin
    ELSE doc = twin

SameButIdResponse(r, twin, id) ==
    /\ r.status_code = twin.status_code
    /\ r.media_type = twin.media_type
    /\ r.body.k = twin.body.k
    /\ HasJson(twin) => SameButId(r.body.doc, twin.body.doc, id)

\* C8: an envelope (jsonrpc "2.0") with a method and "id": null is handled
\* exactly like the same envelope with a string id: same status and same response, carrying
\* "id": null; never 202; and every SSE frame of it carries "id": null.
C8_NullIdIsARequest ==
    (/\ PostedObject
     /\ req.body.jsonrpc = JStr("2.0")
     /\ req.body.method.k = "str" /\ req.body.method.s # ""
     /\ req.body.id = PyNone)
    => /\ SameButIdResponse(resp, handle_mcp_post(WithId(req, JStr("a"))), PyNone)
       /\ resp.status_code # 202
       /\ \A i \in 1..Len(frames) : EchoesId(FrameDoc(frames[i]), PyNone)

\* C9: a single Request (jsonrpc "2.0", id present) whose method string is
\* not a key of TOOLS is answered with 404 and error -32601 carrying the
\* request's id, whatever its params, and the server serves on.
C9_UnknownMethodNotFound ==
    (/\ PostedObject
     /\ req.body.jsonrpc = JStr("2.0")
     /\ req.body.id # Absent
     /\ req.body.method.k = "str"
     /\ req.body.method.s \notin TOOLS)
    => /\ resp.status_code = 404
       /\ HasJson(resp)
       /\ IsResponseObject(resp.body.doc)
       /\ ErrorCodeIs(resp.body.doc, METHOD_NOT_FOUND)
       /\ EchoesId(resp.body.doc, req.body.id)
       /\ pc = "done"
       /\ ENABLED Finish

\* C10: a unary calculate Request with operation "divide" and b = 0, any a,
\* is answered with 400 and an error -32602 without result, carrying the
\* request's id.
C10_DivideByZeroInvalidParams ==
    (/\ PostedObject
     /\ req.body.jsonrpc = JStr("2.0")
     /\ req.body.id # Absent
     /\ req.body.method = JStr("calculate")
     /\ req.body.params.k = "obj"
     /\ req.body.params.operation = JStr("divide")
     /\ req.body.params.b = JInt(0)
     /\ ~PyEqTrue(Get(req.body.params.stream)))
    => /\ resp.status_code = 400
       /\ HasJson(resp)
       /\ ErrorCodeIs(resp.body.doc, INVALID_PARAMS)
       /\ "result" \notin DOMAIN resp.body.doc
       /\ EchoesId(resp.body.doc, req.body.id)

Last(q) == q[Len(q)]

ErrorFrames == {i \in 1..Len(frames) : IsErrorFrame(frames[i])}

\* C4: the frames of a per-request stream are one start frame, then data
\* frames, then one terminal frame (complete or error, never both), and
\* nothing after it: at every moment the frames emitted so far are a prefix
\* of such a sequence, and a generator that ran to its end has emitted its
\* terminal frame.
C4_StreamFrameOrder ==
    PostStream
    => /\ \A i \in 1..Len(frames) :
              /\ IsStartFrame(frames[i]) <=> i = 1
              /\ IsTerminalFrame(frames[i]) => i = Len(frames)
              /\ i > 1 => (IsDataFrame(frames[i]) \/ IsTerminalFrame(frames[i]))
              /\ ~(IsCompleteFrame(frames[i]) /\ IsErrorFrame(frames[i]))
       /\ pc = "done" => (Len(frames) >= 2 /\ IsTerminalFrame(Last(frames)))

\* A stream of data frames ran to its complete frame.
C4_Witness ==
    /\ PostStream /\ pc = "done"
    /\ Len(frames) >= 4
    /\ IsDataFrame(frames[2])
    /\ IsCompleteFrame(Last(frames))

\* The streaming call fails after its start frame: the capability rejects
\* or cannot process its arguments.
FailsMidStream(e) ==
    \/ /\ e.method = JStr("calculate")
       /\ CalculateResult(Get(e.params.operation), Get(e.params.a), Get(e.params.b)).exc # "none"
    \/ /\ e.method = JStr("stream_data")
       /\ GetDefault(e.params.count, JInt(5)).k \notin {"int", "bool"}

\* C5: a streaming call that fails after its start frame emits exactly one
\* error frame carrying a JSON-RPC error object and ends: the error frame
\* is the last frame, no complete frame and no data frame follows it.
C5_StreamErrorIsTerminal ==
    PostStream
    => /\ \A i \in ErrorFrames :
              /\ i = Len(frames)
              /\ i > 1
              /\ FrameDoc(frames[i]).error.code \in ERROR_CODES
              /\ "message" \in DOMAIN FrameDoc(frames[i]).error
       /\ ErrorFrames # {} => \A i \in 1..Len(frames) : ~IsCompleteFrame(frames[i])
       /\ (pc = "done" /\ FailsMidStream(req.body))
              => (Cardinality(ErrorFrames) = 1 /\ IsErrorFrame(Last(frames)))

\* calculate, divide by zero, streamed: start frame, error frame, end.
C5_Witness ==
    /\ PostStream /\ pc = "done"
    /\ req.body.method = JStr("calculate")
    /\ req.body.params.operation = JStr("divide")
    /\ req.body.params.b = JInt(0)
    /\ Len(frames) = 2
    /\ IsStartFrame(frames[1])
    /\ ErrorCodeIs(FrameDoc(frames[2]), INVALID_PARAMS)

(***************************************************************************)
(* Parse errors.                                                           *)
(***************************************************************************)
\* The bytes of the body are not a JSON text.
BodyUnparsable == req.body.k \in {"invalid", "undecodable"}

\* The response body is a single error object with the given code.
AnswersError(r, code) ==
    HasJson(r) /\ IsObjectDoc(r.body.doc) /\ ErrorCodeIs(r.body.doc, code)

\* C11: a POST that passed the gate and whose body is not valid JSON is
\* answered with 400 and a single error object with code -32700, without
\* any frame; and a response carries code -32700 only if the request body
\* itself failed to parse.
C11_ParseErrorIffBadBody ==
    PostAnswered =>
        /\ BodyUnparsable =>
               (resp.status_code = 400 /\ AnswersError(resp, PARSE_ERROR) /\ frames = <<>>)
        /\ AnswersError(resp, PARSE_ERROR) => BodyUnparsable

(***************************************************************************)
(* The transport gate.                                                     *)
(***************************************************************************)
AllowedOrigin(toks) ==
    \/ StartsWith(toks, <<"http://", "localhost", ":">>)
    \/ StartsWith(toks, <<"http://", "127.0.0.1", ":">>)

Exchanged == pc # "idle"

\* The response is FastAPI's rendering of HTTPException(status, detail).
Rejected(status, detail) == resp = HttpError(HTTPException(status, detail))

\* The request was turned away at the boundary: the response is not a
\* JSON-RPC document, no stream was opened and nothing is left to run.
NothingDispatched == pc = "done" /\ frames = <<>> /\ gen = GenIdle /\ ~IsStream(resp)

\* C12 as stated: every request (GET or POST) that carries an Origin header
\* not starting with an allowed prefix is rejected with 403 and nothing is
\* dispatched, whatever its body.
C12_ForeignOriginForbidden ==
    (Exchanged /\ req.headers.origin.present /\ ~AllowedOrigin(req.headers.origin.toks))
        => (Rejected(403, <<"Invalid origin">>) /\ NothingDispatched)

\* C12 amended: every request (GET or POST) that carries a non-empty Origin
\* header not starting with an allowed prefix is rejected with 403 and
\* nothing is dispatched, whatever its body and its other headers; an
\* empty Origin header is treated as an absent one.
C12_NonEmptyForeignOriginForbidden ==
    /\ (Exchanged /\ req.headers.origin.toks # <<>>
                  /\ ~AllowedOrigin(req.headers.origin.toks))
          => (Rejected(403, <<"Invalid origin">>) /\ NothingDispatched)
    /\ (Exchanged /\ req.headers.origin.toks = <<>>) => resp.status_code # 403

\* A streaming call POSTed from a look-alike origin has been turned away.
C12_Witness ==
    /\ pc = "done" /\ req.http = "POST"
    /\ req.headers.origin = Hdr(<<"http://", "localhost", ".evil.example">>)
    /\ IsDict(req.body) /\ req.body.method = JStr("stream_data")
    /\ resp.status_code = 403

\* The exchange was accepted: answered with a 2xx status.
Accepted2xx == Exchanged /\ resp.status_code \in {200, 202}

\* C13: on every accepted exchange the response carries an Mcp-Session-Id
\* header: the request's own identifier unchanged if it sent one, a newly
\* minted identifier otherwise.
C13_SessionIdEchoedOrMinted ==
    Accepted2xx =>
        IF req.headers.session.present
        THEN Header("Mcp-Session-Id", req.headers.session.toks) \in resp.headers
        ELSE \E h \in resp.headers : h.name = "Mcp-Session-Id" /\ h.toks # <<>>

OriginPasses == req.headers.origin.toks = <<>> \/ AllowedOrigin(req.headers.origin.toks)

AcceptNamesAKind ==
    \/ Contains(req.headers.accept.toks, "application/json")
    \/ Contains(req.headers.accept.toks, "text/event-stream")

VersionMessage == "Unsupported MCP protocol version: "

AcceptMessage == "Accept header must include application/json and/or text/event-stream"

\* The response is an HTTPException whose detail starts with the message.
RejectedFor(message) ==
    /\ HasJson(resp) /\ "detail" \in DOMAIN resp.body.doc
    /\ resp.body.doc.detail[1] = message

\* C14 as stated: a request whose MCP-Protocol-Version header is present
\* and different from "2025-06-18" is rejected with 400 and a detail naming
\* the value, and nothing is dispatched; with the header absent or equal
\* the request is not rejected on this ground.
C14_OtherVersionRejected ==
    /\ (Exchanged /\ req.headers.version.present
                  /\ req.headers.version.toks # <<MCP_PROTOCOL_VERSION>>)
          => (Rejected(400, <<VersionMessage>> \o req.headers.version.toks)
              /\ NothingDispatched)
    /\ (Exchanged /\ (~req.headers.version.present
                      \/ req.headers.version.toks = <<MCP_PROTOCOL_VERSION>>))
          => ~RejectedFor(VersionMessage)

\* C14 amended: a request whose Origin and Accept headers pass and whose
\* MCP-Protocol-Version header is non-empty and different from
\* "2025-06-18" is rejected with 400 and a detail naming the value, and
\* nothing is dispatched; with the header absent, empty or equal no
\* request is rejected on this ground.
C14_OtherVersionRejectedAfterOriginAndAccept ==
    /\ (Exchanged /\ OriginPasses /\ AcceptNamesAKind
                  /\ req.headers.version.toks # <<>>
                  /\ req.headers.version.toks # <<MCP_PROTOCOL_VERSION>>)
          => (Rejected(400, <<VersionMessage>> \o req.headers.version.toks)
              /\ NothingDispatched)
    /\ (Exchanged /\ req.headers.version.toks \in {<<>>, <<MCP_PROTOCOL_VERSION>>})
          => ~RejectedFor(VersionMessage)

\* A streaming call sent under an older protocol version has been rejected.
C14_Witness ==
    /\ pc = "done" /\ req.http = "POST"
    /\ OriginPasses /\ AcceptNamesAKind
    /\ req.headers.version = Hdr(<<"2024-11-05">>)
    /\ IsDict(req.body) /\ req.body.method = JStr("stream_data")
    /\ resp.status_code = 400

\* C15 as stated: a request on /mcp whose Accept header names neither
\* application/json nor text/event-stream (or is missing) is rejected with
\* 400 before classification; one that names at least one of them is not
\* rejected on this ground.
C15_AcceptMustNameAKind ==
    /\ (Exchanged /\ ~AcceptNamesAKind)
          => (resp.status_code = 400 /\ RejectedFor(AcceptMessage) /\ NothingDispatched)
    /\ (Exchanged /\ AcceptNamesAKind) => ~RejectedFor(AcceptMessage)

\* C15 amended: a request on /mcp whose Origin header passes and whose
\* Accept header names neither application/json nor text/event-stream (or
\* is missing) is rejected with 400 before classification, whatever its
\* protocol version; one that names at least one of them is not rejected
\* on this ground.  (With a foreign Origin the rejection is the 403.)
C15_AcceptMustNameAKindAfterOrigin ==
    /\ (Exchanged /\ OriginPasses /\ ~AcceptNamesAKind)
          => (Rejected(400, <<AcceptMessage>>) /\ NothingDispatched)
    /\ (Exchanged /\ ~OriginPasses) => resp.status_code = 403
    /\ (Exchanged /\ AcceptNamesAKind) => ~RejectedFor(AcceptMessage)

\* A POST accepting one kind only was served, and so was not rejected.
C15_Witness ==
    /\ pc = "done" /\ req.http = "POST"
    /\ req.headers.accept = Hdr(<<"application/json">>)
    /\ OriginPasses
    /\ req.headers.version.toks \in {<<>>, <<MCP_PROTOCOL_VERSION>>}
    /\ resp.status_code = 200

(***************************************************************************)
(* GET /mcp.                                                               *)
(***************************************************************************)
GetExchanged == Exchanged /\ req.http = "GET"

AcceptsEventStream == Contains(req.headers.accept.toks, "text/event-stream")

\* C16 as stated: with an allowed or absent Origin and an acceptable
\* protocol version, every GET /mcp whose Accept header does not contain
\* text/event-stream is answered with 405, and every GET /mcp whose Accept
\* header contains it with 200 and an SSE stream.
C16_GetWithoutEventStream405 ==
    (/\ GetExchanged
     /\ (~req.headers.origin.present \/ AllowedOrigin(req.headers.origin.toks))
     /\ (~req.headers.version.present
         \/ req.headers.version.toks = <<MCP_PROTOCOL_VERSION>>))
    => IF AcceptsEventStream THEN IsStream(resp) ELSE resp.status_code = 405

\* C16 amended: with headers that pass the Origin and protocol-version
\* checks, a GET /mcp whose Accept header contains text/event-stream is
\* answered with 200 and an SSE stream; one whose Accept header contains
\* application/json but not text/event-stream is answered with 405; one
\* whose Accept header contains neither (or is missing) is answered with
\* 400 by the header gate.
C16_GetWithoutEventStream405Or400 ==
    (/\ GetExchanged
     /\ OriginPasses
     /\ req.headers.version.toks \in {<<>>, <<MCP_PROTOCOL_VERSION>>})
    => CASE AcceptsEventStream -> IsStream(resp) /\ resp.headers = StreamingHeaders
         [] ~AcceptsEventStream /\ AcceptNamesAKind ->
              Rejected(405, <<"Method Not Allowed - SSE not supported">>)
              /\ NothingDispatched
         [] OTHER -> Rejected(400, <<AcceptMessage>>) /\ NothingDispatched

\* A GET that accepts JSON only has been answered with 405.
C16_Witness ==
    /\ GetExchanged /\ OriginPasses
    /\ req.headers.accept = Hdr(<<"application/json">>)
    /\ resp.status_code = 405

\* The exchange is the server-push stream of an accepted GET.
GetStream == GetExchanged /\ IsStream(resp)

\* C17: on an accepted GET /mcp connection the first frame is the initial
\* notification, every later frame is a heartbeat, no frame is terminal,
\* and the server never ends the sequence on its own: the stream is over
\* only when the client has disconnected.
C17_GetStreamUnbounded ==
    GetStream =>
        /\ \A i \in 1..Len(frames) :
              /\ ~IsTerminalFrame(frames[i])
              /\ FrameDoc(frames[i]).method = "server_notification"
              /\ (i = 1) = (FrameDoc(frames[i]).params.message = "SSE stream started")
        /\ pc \in {"streaming", "cancelled"}

(***************************************************************************)
(* Status mapping and malformed envelopes.                                 *)
(***************************************************************************)
\* A POST of one envelope (not a batch) answered without a stream.
PostedUnary == PostAnswered /\ req.body.k # "array" /\ ~IsStream(resp)

\* The body has the shape of a notification or of a response.
NotificationOrResponseShaped(e) ==
    /\ IsDict(e)
    /\ \/ (e.method # Absent /\ e.id = Absent)
       \/ ((e.result # Absent \/ e.error # Absent) /\ e.method = Absent)

\* The HTTP status the spec assigns to a JSON-RPC outcome.
StatusOf(doc) ==
    CASE "result" \in DOMAIN doc -> 200
      [] ErrorCodeIs(doc, METHOD_NOT_FOUND) -> 404
      [] ErrorCodeIs(doc, INVALID_PARAMS) -> 400
      [] ErrorCodeIs(doc, INVALID_REQUEST) -> 400
      [] ErrorCodeIs(doc, PARSE_ERROR) -> 400
      [] ErrorCodeIs(doc, INTERNAL_ERROR) -> 500
      [] OTHER -> 0

\* C18: for every single-envelope unary POST the status is 202 with an
\* empty body exactly when the body is notification- or response-shaped,
\* and otherwise the body is one response object and the status is the one
\* its outcome maps to: result 200, -32601 404, -32602 / -32600 / -32700
\* 400, -32603 500.
C18_StatusFollowsOutcome ==
    PostedUnary =>
        IF NotificationOrResponseShaped(req.body)
        THEN resp.status_code = 202 /\ resp.body = EmptyBody
        ELSE /\ HasJson(resp)
             /\ IsResponseObject(resp.body.doc)
             /\ resp.status_code = StatusOf(resp.body.doc)

\* The top-level value of the body is neither an object nor an array.
PostedScalar == PostAnswered /\ req.body \in Scalars \cup {Scalar}

\* C19 as stated: a POST body that is valid JSON but whose top-level value
\* is a number, string, boolean or null is answered with 400 and
\* error.code -32700.
C19_ScalarBodyParseError ==
    PostedScalar => (resp.status_code = 400 /\ AnswersError(resp, PARSE_ERROR))

\* C19 amended: a POST body that is valid JSON but whose top-level value
\* is a number, string, boolean or null is answered with 400 and the
\* single error object {code -32600, message "Invalid Request"} without
\* an id.
C19_ScalarBodyInvalidRequest ==
    PostedScalar =>
        resp = JsonResponse(
                   create_response(PyNone, ErrorObj(INVALID_REQUEST, "Invalid Request"), PyNone),
                   400)

\* The JSON text "null" has been POSTed and answered.
C19_Witness ==
    /\ PostAnswered /\ pc = "done" /\ req.body = PyNone
    /\ resp.status_code = 400 /\ "id" \notin DOMAIN resp.body.doc

\* The jsonrpc member is missing or is not the string "2.0".
BadVersion(e) == IsDict(e) /\ e.jsonrpc # JStr("2.0")

\* C20: every POSTed object envelope whose jsonrpc member is missing or
\* not "2.0" is answered with error.code -32600 and nothing else happens:
\* no 202, no SSE stream, no result; and such an element of a batch gets an
\* entry with error.code -32600 at its place in the response array.
C20_BadVersionInvalidRequest ==
    /\ (PostedObject /\ BadVersion(req.body))
          => (~IsStream(resp) /\ AnswersError(resp, INVALID_REQUEST))
    /\ PostedBatch =>
          \A i \in 1..Len(req.body.items) :
              BadVersion(req.body.items[i]) =>
                  /\ HasJson(resp) /\ IsArrayDoc(resp.body.doc)
                  /\ Len(resp.body.doc.items) >= i
                  /\ ErrorCodeIs(resp.body.doc.items[i], INVALID_REQUEST)

(***************************************************************************)
(* Envelopes without a method; notifications.                              *)
(***************************************************************************)
\* C21: a POSTed object envelope with jsonrpc "2.0", no method member and
\* neither result nor error is answered with 400 and error.code -32600,
\* the response carries the envelope's id when it has one, and no
\* capability is invoked.
C21_MissingMethodInvalidRequest ==
    (/\ PostedObject
     /\ req.body.jsonrpc = JStr("2.0")
     /\ req.body.method = Absent
     /\ req.body.result = Absent /\ req.body.error = Absent)
    => /\ resp.status_code = 400
       /\ AnswersError(resp, INVALID_REQUEST)
       /\ req.body.id # Absent => EchoesId(resp.body.doc, req.body.id)
       /\ calls = <<>>

\* C22: a POSTed object without a method member is answered with 202 and
\* an empty body exactly when it has exactly one of the members result and
\* error; with both it is not answered with 202.
C22_ResponseHasResultXorError ==
    (PostedObject /\ req.body.method = Absent)
    => ((resp.status_code = 202 /\ resp.body = EmptyBody)
          <=> ((req.body.result # Absent) # (req.body.error # Absent)))

\* C23: a notification (method present, id absent) that names a registered
\* method is dispatched for effect: when the exchange is answered the
\* named capability has been invoked exactly once, with the notification's
\* params, and the client has been told nothing but 202.
C23_NotificationDispatched ==
    (/\ PostedObject
     /\ req.body.jsonrpc = JStr("2.0")
     /\ req.body.id = Absent
     /\ RegisteredMethod(req.body))
    => /\ calls = <<Invocation(req.body.method.s, ParamsOf(req.body))>>
       /\ resp = Accepted

(***************************************************************************)
(* Choice between the unary and the streaming path.                        *)
(***************************************************************************)
\* A single POSTed Request: jsonrpc "2.0", a method name, an id member.
PostedRequest ==
    /\ PostedObject
    /\ req.body.jsonrpc = JStr("2.0")
    /\ req.body.method.k = "str" /\ req.body.method.s # ""
    /\ req.body.id # Absent

ParamsIsObject(e) == e.params.k = "obj"

\* The same request without the stream member of its params.
WithoutStream(request) ==
    [request EXCEPT !.body.params.stream = Absent]

RECURSIVE DataStatuses(_)
DataStatuses(n) == IF n <= 0 THEN <<>> ELSE Append(DataStatuses(n - 1), "data")

\* C25: a stream_data Request with params {count: n} and no stream member
\* is answered with an SSE stream whose frames are a start frame, n data
\* frames with index 1..n and a complete frame.
C25_StreamDataStreamsByDefault ==
    (/\ PostedRequest
     /\ req.body.id # PyNone
     /\ req.body.method = JStr("stream_data")
     /\ ParamsIsObject(req.body)
     /\ req.body.params.stream = Absent
     /\ req.body.params.count.k = "int" /\ req.body.params.count.n >= 0)
    => /\ IsStream(resp)
       /\ pc = "done" =>
             /\ [i \in 1..Len(frames) |-> FrameStatus(frames[i])]
                  = <<"start">> \o DataStatuses(req.body.params.count.n) \o <<"complete">>
             /\ \A i \in 2..(Len(frames) - 1) :
                   FrameDoc(frames[i]).result.index = JInt(i - 1)

(***************************************************************************)
(* Failures inside a capability.                                           *)
(***************************************************************************)
\* The invocation process_single makes for the element raises something
\* other than ValueError.
FailsInside(e) ==
    /\ SingleCalls(e) # <<>>
    /\ execute_tool(SingleCalls(e)[1].tool_name, SingleCalls(e)[1].params).exc
          \notin {"none", "ValueError"}

\* The message of that failure.
FailureMessage(e) ==
    execute_tool(SingleCalls(e)[1].tool_name, SingleCalls(e)[1].params).msg

\* The response object reporting the failure of element e.
InternalErrorFor(e) ==
    create_response(PyNone, ErrorObj(INTERNAL_ERROR, FailureMessage(e)), e.id)

RemoveAt(q, i) == SubSeq(q, 1, i - 1) \o SubSeq(q, i + 1, Len(q))

\* The answer to the same batch without its i-th element.
AnswerWithout(i) ==
    handle_mcp_post([req EXCEPT !.body.items = RemoveAt(req.body.items, i)])

BearsId(e) == IsDict(e) /\ e.id # Absent /\ ~NotificationOrResponseShaped(e)

\* C30: for every non-empty batch the returned array has as many entries
\* as there are elements that are Requests or Malformed with an id: an
\* element without id (a notification, a non-object, a malformed object
\* without id) contributes no entry.
C30_BatchLengthCountsIdBearers ==
    (PostedBatch /\ req.body.items # <<>>)
    => /\ HasJson(resp) /\ IsArrayDoc(resp.body.doc)
       /\ Len(resp.body.doc.items)
            = Cardinality({i \in 1..Len(req.body.items) : BearsId(req.body.items[i])})

\* The stream has ended with a terminal frame.
StreamEnded ==
    pc = "done" /\ frames # <<>> /\ IsTerminalFrame(Last(frames))

\* C29: every POSTed Request gets its outcome: if it is not streamed it is
\* answered at once with its single response object, and if it is
\* streamed and the client stays connected the frame sequence reaches its
\* terminal frame and ends.
C29_EveryRequestGetsItsOutcome ==
    /\ []((PostedRequest /\ ~IsStream(resp))
            => (pc = "done" /\ HasJson(resp) /\ IsResponseObject(resp.body.doc)))
    /\ ((PostedRequest /\ IsStream(resp) /\ pc = "streaming")
            ~> (StreamEnded \/ pc = "cancelled"))

(***************************************************************************)
(* Independence of concurrent exchanges.                                   *)
(***************************************************************************)
\* The frames the request's generator produces when it is run alone, from
\* generator state g on.
RECURSIVE RunAlone(_, _, _)
RunOn(request, s, out) == RunAlone(request, s.g, out \o s.out)
RunAlone(request, g, out) ==
    IF g.at = "closed" THEN out ELSE RunOn(request, Step(request, g), out)

AloneFrames(request) ==
    IF IsStream(Handled(request)) THEN RunAlone(request, GenInit, <<>>) ELSE <<>>

IsPrefix(p, q) == Len(p) <= Len(q) /\ SubSeq(q, 1, Len(p)) = p

DataFrames == SelectSeq(frames, IsDataFrame)

\* The streaming call ran to its end and its last frame is the complete
\* frame.
CompletedNormally ==
    /\ PostStream /\ pc = "done"
    /\ Len(frames) > 0 /\ IsCompleteFrame(Last(frames))

\* The count a stream_data call works with: params.get("count", 5).
CountOf(e) == GetDefault(e.params.count, JInt(5))

\* C32: in a streaming call that completes normally each partial result
\* is exactly one data frame, in generation order: stream_data with integer
\* count n emits max(n, 0) data frames with index 1, 2, ..., n and its
\* complete frame reports total = count; get_weather emits four data frames,
\* location, temperature, condition, humidity, in that order; calculate
\* emits no data frame.
C32_DataFramesInGenerationOrder ==
    CompletedNormally =>
        /\ req.body.method = JStr("stream_data") =>
              /\ CountOf(req.body).k = "int"
              /\ Len(DataFrames) = (IF CountOf(req.body).n < 0 THEN 0 ELSE CountOf(req.body).n)
              /\ \A i \in 1..Len(DataFrames) :
                    FrameDoc(DataFrames[i]).result.index = JInt(i)
              /\ FrameDoc(Last(frames)).result.total = CountOf(req.body)
        /\ req.body.method = JStr("get_weather") =>
              [i \in 1..Len(DataFrames) |-> FrameDoc(DataFrames[i]).result.field]
                 = <<JStr("location"), JStr("temperature"), JStr("condition"), JStr("humidity")>>
        /\ req.body.method = JStr("calculate") => Len(DataFrames) = 0

\* A stream_data call with count 2 completed: two data frames were emitted.
C32_Witness ==
    /\ CompletedNormally
    /\ req.body.method = JStr("stream_data")
    /\ req.body.params.count = JInt(2)
    /\ Len(DataFrames) = 2

(***************************************************************************)
\* A single POSTed object envelope whose id member is present and not null.
PostedWithId == PostedObject /\ req.body.id \notin {Absent, PyNone}

\* C33: every response object the server emits for a single POSTed object
\* envelope with a non-null id carries exactly that id: the unary response
\* object, success or error, on every failure path (the failures raised
\* outside process_single included), and every frame of a streaming call.
C33_EveryResponseObjectCarriesId ==
    PostedWithId =>
        /\ (HasJson(resp) /\ IsObjectDoc(resp.body.doc))
              => EchoesId(resp.body.doc, req.body.id)
        /\ \A i \in 1..Len(frames) : EchoesId(FrameDoc(frames[i]), req.body.id)

(***************************************************************************)
\* The response object of the unary path for the params of the request:
\* process_single from its call of execute_tool on.
UnaryCalculate(e) ==
    ToolOutcome(execute_tool("calculate", e.params), JInt(0)).val.body.doc

\* A calculate call served as a stream ran to its end.
StreamedCalculate ==
    /\ PostStream /\ pc = "done"
    /\ req.body.method = JStr("calculate")
    /\ Len(frames) > 0

\* C34: the streaming and unary paths of calculate agree: for the same
\* params the terminal frame of the streaming call carries the computed
\* result of the unary response when the unary call succeeds, and is an
\* error frame with the error code of the unary error response when the
\* unary call fails (divide with b = 0 and unknown operations included).
C34_StreamingCalculateAgreesWithUnary ==
    StreamedCalculate =>
        IF "result" \in DOMAIN UnaryCalculate(req.body)
        THEN /\ IsCompleteFrame(Last(frames))
             /\ FrameDoc(Last(frames)).result.result = UnaryCalculate(req.body).result.result
        ELSE /\ IsErrorFrame(Last(frames))
             /\ FrameDoc(Last(frames)).error.code = UnaryCalculate(req.body).error.code

(***************************************************************************)
\* The MCP-Protocol-Version header is empty, absent or the supported one.
VersionPasses ==
    req.headers.version.toks = <<>> \/ req.headers.version.toks = <<MCP_PROTOCOL_VERSION>>

\* C35: the transport gate checks Origin, then Accept, then the protocol
\* version, and stops at the first violation: a request that violates the
\* Origin rule is answered 403 even when its Accept or MCP-Protocol-Version
\* header is invalid too, and the outcome of the gate is determined by these
\* three headers alone, whatever the body (and the session header).
C35_GateOrderOriginAcceptVersion ==
    Exchanged =>
        /\ ~OriginPasses
              => (Rejected(403, <<"Invalid origin">>) /\ NothingDispatched)
        /\ (OriginPasses /\ ~AcceptNamesAKind)
              => (Rejected(400, <<AcceptMessage>>) /\ NothingDispatched)
        /\ (OriginPasses /\ AcceptNamesAKind /\ ~VersionPasses)
              => (Rejected(400, <<VersionMessage>> \o req.headers.version.toks)
                  /\ NothingDispatched)
        /\ (OriginPasses /\ AcceptNamesAKind /\ VersionPasses)
              => /\ resp.status_code # 403
                 /\ ~RejectedFor(AcceptMessage)
                 /\ ~RejectedFor(VersionMessage)

\* A POST that violates all three rules at once has been answered 403.
C35_Witness ==
    /\ pc = "done" /\ req.http = "POST"
    /\ ~OriginPasses /\ ~AcceptNamesAKind /\ ~VersionPasses
    /\ IsDict(req.body)
    /\ resp.status_code = 403

(***************************************************************************)
\* A well-formed Request for a streaming-capable method that asks for a
\* stream: params.stream == True.
AsksForStream(e) ==
    /\ IsDict(e) /\ e.jsonrpc = JStr("2.0") /\ e.id \notin {Absent, PyNone}
    /\ RegisteredMethod(e) /\ ParamsIsObject(e)
    /\ PyEqTrue(e.params.stream)

\* The response object of the unary path for the element.
UnaryObject(e) == create_response(execute_tool(e.method.s, e.params).val, PyNone, e.id)

\* The place in the response array of what the i-th element contributes.
EntryIndex(items, i) == Len(ElementwiseEntries(SubSeq(items, 1, i - 1))) + 1

\* The response to an array body is one application/json document and no
\* stream is opened.
BatchAnsweredAsJson ==
    /\ ~IsStream(resp) /\ resp.media_type = "application/json"
    /\ HasJson(resp)
    /\ frames = <<>> /\ gen = GenIdle /\ pc = "done"

\* C36: streaming is never started from inside a batch: a batch element
\* with params.stream == true on a streaming-capable method is served
\* through the unary path and contributes one ordinary response object to
\* the array, and the response to any array body is a single
\* application/json document, never an SSE stream.
C36_NoStreamingInsideBatch ==
    PostedBatch =>
        /\ BatchAnsweredAsJson
        /\ \A i \in 1..Len(req.body.items) :
              AsksForStream(req.body.items[i]) =>
                  /\ IsArrayDoc(resp.body.doc)
                  /\ EntryIndex(req.body.items, i) <= Len(resp.body.doc.items)
                  /\ resp.body.doc.items[EntryIndex(req.body.items, i)]
                        = UnaryObject(req.body.items[i])

(***************************************************************************)
(* The wire.  A JSON text is the sequence of its tokens; an SSE stream is  *)
(* a sequence of lines.  JsonDumps above keeps a body as the document it   *)
(* denotes; Dumps and Loads are json.dumps and json.loads token by token.  *)
(***************************************************************************)
Tok(t, n, d, s) == [t |-> t, n |-> n, d |-> d, s |-> s]
Punct(c) == Tok(c, 0, 1, "")

\* Mutant: a float with an integral value is written without a fraction
\* part ("2" for 2.0).
ScalarToken_IntegralFloatAsInt(v) ==
    CASE v.k = "null" -> Punct("null")
      [] v.k = "bool" -> Punct(IF v.n = 1 THEN "true" ELSE "false")
      [] v.k = "int" -> Tok("number", v.n, 1, "")
      [] v.k = "float" -> IF v.d = 1 THEN Tok("number", v.n, 1, "")
                          ELSE Tok("number", v.n, v.d, ".")
      [] v.k = "str" -> Tok("string", 0, 1, v.s)

\* json.dumps of a scalar: None, True and False are literals (True is
\* tested before int), an int is its digits, a float is its repr, which
\* always has a fraction part or an exponent, a str is a quoted string.
ScalarToken(v) ==
    CASE v.k = "null" -> Punct("null")
      [] v.k = "bool" -> Punct(IF v.n = 1 THEN "true" ELSE "false")
      [] v.k = "int" -> Tok("number", v.n, 1, "")
      [] v.k = "float" -> Tok("number", v.n, v.d, ".")
      [] v.k = "str" -> Tok("string", 0, 1, v.s)

\* json.loads of a scalar token: a number without fraction part or exponent
\* is an int, any other number a float.
TokenScalar(t) ==
    CASE t.t = "null" -> PyNone
      [] t.t = "true" -> JBool(TRUE)
      [] t.t = "false" -> JBool(FALSE)
      [] t.t = "number" -> IF t.s = "." THEN JFloat(t.n, t.d) ELSE JInt(t.n)
      [] t.t = "string" -> JStr(t.s)

IsScalar(v) == DOMAIN v = {"k", "n", "d", "s"}

\* The keys of a dict in the order json.dumps writes them.
RECURSIVE SetToSeq(_)
SetToSeq(S) ==
    IF S = {} THEN <<>>
    ELSE LET x == CHOOSE y \in S : TRUE IN <<x>> \o SetToSeq(S \ {x})

RECURSIVE Dumps(_)
RECURSIVE DumpsMembers(_, _)
RECURSIVE DumpsItems(_)

\* json.dumps of a scalar or of a dict.
Dumps(v) ==
    IF IsScalar(v) THEN <<ScalarToken(v)>>
    ELSE <<Punct("{")>> \o DumpsMembers(v, SetToSeq(DOMAIN v)) \o <<Punct("}")>>

DumpsMembers(v, keys) ==
    IF keys = <<>> THEN <<>>
    ELSE <<Tok("string", 0, 1, Head(keys)), Punct(":")>>
         \o Dumps(v[Head(keys)])
         \o (IF Len(keys) > 1 THEN <<Punct(",")>> ELSE <<>>)
         \o DumpsMembers(v, Tail(keys))

DumpsItems(items) ==
    IF items = <<>> THEN <<>>
    ELSE Dumps(Head(items))
         \o (IF Len(items) > 1 THEN <<Punct(",")>> ELSE <<>>)
         \o DumpsItems(Tail(items))

\* json.dumps of a list of dicts.
DumpsList(items) == <<Punct("[")>> \o DumpsItems(items) \o <<Punct("]")>>

RECURSIVE ParseValue(_, _)
RECURSIVE ParseMembers(_, _, _)
RECURSIVE ParseItems(_, _, _)

\* The decoder of json.loads at token i: the value and the place after it.
ParseValue(toks, i) ==
    CASE toks[i].t = "{" -> ParseMembers(toks, i + 1, <<>>)
      [] toks[i].t = "[" -> ParseItems(toks, i + 1, <<>>)
      [] OTHER -> [val |-> TokenScalar(toks[i]), next |-> i + 1]

\* A member is stored under its key; a later duplicate replaces it.
ParseMember(toks, acc, key, pv) ==
    ParseMembers(toks, pv.next, (key :> pv.val) @@ acc)

ParseMembers(toks, i, acc) ==
    CASE toks[i].t = "}" -> [val |-> acc, next |-> i + 1]
      [] toks[i].t = "," -> ParseMembers(toks, i + 1, acc)
      [] OTHER -> ParseMember(toks, acc, toks[i].s, ParseValue(toks, i + 2))

ParseItem(toks, acc, pv) == ParseItems(toks, pv.next, Append(acc, pv.val))

ParseItems(toks, i, acc) ==
    CASE toks[i].t = "]" -> [val |-> acc, next |-> i + 1]
      [] toks[i].t = "," -> ParseItems(toks, i + 1, acc)
      [] OTHER -> ParseItem(toks, acc, ParseValue(toks, i))

Loads(toks) == ParseValue(toks, 1).val

\* The Python dict a response object of the model stands for: the version
\* and the error message are str, the error code is an int.
PyDict(o) ==
    [key \in DOMAIN o |->
        CASE key = "jsonrpc" -> JStr(o.jsonrpc)
          [] key = "error" -> [code |-> JInt(o.error.code), message |-> JStr(o.error.message)]
          [] OTHER -> o[key]]

PyDicts(items) == [i \in 1..Len(items) |-> PyDict(items[i])]

DataPrefix == Punct("data: ")

\* f"data: {json.dumps(obj)}\n\n": the data line and the blank line.
SseText(obj) == << <<DataPrefix>> \o Dumps(PyDict(obj)), <<>> >>

\* The lines of the response body of a stream: the frames one after the
\* other.
RECURSIVE WireOf(_)
WireOf(sent) ==
    IF sent = <<>> THEN <<>> ELSE SseText(FrameDoc(Head(sent))) \o WireOf(Tail(sent))

\* MCPClient.stream: every line that starts with "data: " is cut after the
\* prefix and parsed; the other lines are skipped.
RECURSIVE ClientStream(_)
ClientStream(lines) ==
    IF lines = <<>> THEN <<>>
    ELSE (IF Head(lines) # <<>> /\ Head(lines)[1] = DataPrefix
          THEN <<Loads(Tail(Head(lines)))>> ELSE <<>>)
         \o ClientStream(Tail(lines))

\* C31: round trip: every response object the server builds, encoded to
\* the wire (a JSON body, an element of a JSON array body, or an SSE frame
\* "data: <json>" followed by a blank line) and decoded as the client does
\* (cut the "data: " prefix, parse the JSON), is the original again: same
\* members, same id, same result or error, same jsonrpc version; and the
\* client reads exactly one value per frame, in order.
C31_RoundTrip ==
    /\ (PostAnswered /\ HasJson(resp) /\ IsObjectDoc(resp.body.doc))
          => Loads(Dumps(PyDict(resp.body.doc))) = PyDict(resp.body.doc)
    /\ (PostAnswered /\ HasJson(resp) /\ IsArrayDoc(resp.body.doc))
          => Loads(DumpsList(PyDicts(resp.body.doc.items))) = PyDicts(resp.body.doc.items)
    /\ PostStream
          => ClientStream(WireOf(frames)) = PyDicts([i \in 1..Len(frames) |-> FrameDoc(frames[i])])

\* A streamed division ran to its end: the client has read the start frame
\* and the complete frame, whose result is a float.
C31_Witness ==
    /\ PostStream /\ pc = "done"
    /\ req.body.method = JStr("calculate")
    /\ Len(frames) = 2 /\ IsCompleteFrame(frames[2])
    /\ FrameDoc(frames[2]).result.result.k = "float"
    /\ Len(ClientStream(WireOf(frames))) = 2
    /\ ClientStream(WireOf(frames))[2].result.result = FrameDoc(frames[2]).result.result

(***************************************************************************)
(* The SSE demo server.                                                    *)
(***************************************************************************)
\* The registry holds exactly the ids of the connections whose stream has
\* started and not ended, each with its own registration, and no two such
\* connections have the same id.
RegistryIsRunningStreams ==
    /\ DOMAIN clients = {streams[c].client_id : c \in {d \in Conns : Running(d)}}
    /\ \A c \in Conns : Running(c) => clients[streams[c].client_id] = Registration(streams[c].client_id)
    /\ \A c, d \in Conns :
          (Running(c) /\ Running(d) /\ streams[c].client_id = streams[d].client_id) => c = d

\* The first frame of a connection is the endpoint event for the id the
\* connection registered, and there is no frame before the registration.
FirstFrameAdvertisesEndpoint ==
    \A c \in Conns :
        /\ streams[c].out # <<>> =>
              /\ streams[c].client_id \in uuids
              /\ streams[c].out[1]
                    = SseEvent("endpoint", [uri |-> <<"/message/", streams[c].client_id>>])
        /\ streams[c].at \in {"idle", "refused", "created"} => streams[c].out = <<>>

\* A step that registers an id registers one id, never issued before, for
\* one connection that had no frame yet.
RegistersFreshId ==
    \A id \in DOMAIN clients' \ DOMAIN clients :
        /\ id \notin uuids
        /\ DOMAIN clients' = DOMAIN clients \cup {id}
        /\ \E c \in Conns :
              /\ streams[c].at = "created" /\ streams[c].out = <<>>
              /\ streams'[c].client_id = id /\ Running(c)'

\* A step that removes an id is the end of the stream of the connection
\* that registered it, and removes no other id.
RemovesOwnId ==
    \A id \in DOMAIN clients \ DOMAIN clients' :
        /\ DOMAIN clients' = DOMAIN clients \ {id}
        /\ \E c \in Conns :
              /\ Running(c) /\ streams[c].client_id = id
              /\ streams'[c].at = "ended"
              /\ \A d \in Conns \ {c} : streams'[d] = streams[d]

\* A POST to /message/<id> has just been answered.
MessageAnswered == posted.at = "idle" /\ posted'.at # "idle"

InvalidClientId == jsonify([error |-> "Invalid client ID"], 400)

\* As stated: the POST is processed only if the id is registered, and is
\* answered 400 otherwise.
PostProcessedIffRegistered ==
    MessageAnswered =>
        IF posted'.client_id \in DOMAIN clients
        THEN posted'.resp # InvalidClientId
        ELSE posted'.resp = InvalidClientId

\* As the code does: the Origin check of the decorator comes first.
PostProcessedIffRegisteredAfterOrigin ==
    MessageAnswered =>
        IF posted'.origin.toks # <<>> /\ ~AllowedOrigin(posted'.origin.toks)
        THEN posted'.resp = jsonify([error |-> "Invalid origin"], 403)
        ELSE IF posted'.client_id \in DOMAIN clients
        THEN posted'.resp # InvalidClientId /\ posted'.resp.status_code # 403
        ELSE posted'.resp = InvalidClientId

\* C37 as stated: in the SSE demo server the clients registry contains
\* exactly the ids of the /sse connections whose stream has started and not
\* yet ended: each connection registers one fresh id before its first
\* frame, that first frame is the endpoint event advertising /message/<id>
\* for that id, a POST to /message/<id> is processed only while <id> is
\* registered and is answered 400 otherwise, and no interleaving of
\* connections and posts lets one connection remove or reuse another's id.
C37_RegistryTracksStreams ==
    /\ [](RegistryIsRunningStreams /\ FirstFrameAdvertisesEndpoint)
    /\ [][RegistersFreshId /\ RemovesOwnId /\ PostProcessedIffRegistered]_vars

\* C37 amended: the same, except that a POST to /message/<id> whose Origin
\* header is non-empty and does not start with an allowed prefix is
\* answered 403 by the Origin check, whether or not <id> is registered;
\* every other POST is processed only while <id> is registered and is
\* answered 400 otherwise.
C37_RegistryTracksStreamsAfterOrigin ==
    /\ [](RegistryIsRunningStreams /\ FirstFrameAdvertisesEndpoint)
    /\ [][RegistersFreshId /\ RemovesOwnId /\ PostProcessedIffRegisteredAfterOrigin]_vars

\* One connection has ended and removed its id, another is still
\* registered, and a POST to the id of the first has been answered 400
\* while a POST from a foreign origin would be answered 403.
C37_Witness ==
    /\ \E c, d \in Conns :
          /\ streams[c].at = "ended" /\ streams[c].client_id = posted.client_id
          /\ streams[d].at = "waiting" /\ streams[d].client_id \in DOMAIN clients
    /\ posted.at = "done"
    /\ posted.client_id \notin DOMAIN clients
    /\ posted.resp = InvalidClientId

\* C38: in the SSE demo server, after the client of a /sse connection has
\* disconnected, the stream generator of the connection eventually
\* terminates and its cleanup removes the id of the connection from the
\* clients registry (so that later POSTs to the message endpoint of that id
\* are rejected).
C38_DisconnectLeadsToCleanup ==
    \A c \in Conns : \A id \in Uuids :
        (Running(c) /\ streams[c].client_id = id /\ ~streams[c].connected)
            ~> (streams[c].at \in {"ended", "idle"} /\ id \notin DOMAIN clients)

====
